---- MODULE Spec2Model ----
(***************************************************************************)
(* Warranty Keeper: the status classifier, the message composer and the    *)
(* share dispatcher of src/utils/warrantyUtils.ts, the load-time schema    *)
(* migration and the record workflow of src/App.tsx, and the form of       *)
(* src/unnamed/part_000.                                                   *)
(*                                                                         *)
(* Representation of JavaScript values                                     *)
(*   object            a function from the names of its own keys to their  *)
(*                     values; a key whose value is undefined is the same   *)
(*                     as an absent key (JSON storage drops it)             *)
(*   string            a TLA+ string; a text whose characters matter (a    *)
(*                     phone number, the text typed into a number input)   *)
(*                     is the tuple of its characters, <<>> being ''        *)
(*   date string       a tuple: <<y, m, d>> is "YYYY-MM-DD", <<>> is the    *)
(*                     empty string '', NotADate is text no parser accepts  *)
(*   Date object       the local wall-clock time in hours since             *)
(*                     1970-01-01T00:00 local (24 * day number + hour)      *)
(*   T | null          a sequence of length 0 (null) or 1                   *)
(* The local time zone is the one the application is written for           *)
(* (Malaysia, UTC+8, no daylight saving): LocalOffsetHours.                *)
(***************************************************************************)
EXTENDS Integers, Sequences, FiniteSets, TLC

VARIABLES
    warranty,    \* the record a card renders (argument of getWarrantyStatusInfo)
    now,         \* the wall clock read by new Date(), in local hours
    info,        \* the WarrantyStatusInfo of the last render, NoInfo before it
    warranties,  \* App: the stored collection (useLocalStorage 'warranties')
    loaded,      \* App: the collections read from storage, one per page load
    mounted,     \* App: whether the component is mounted (its effect has run)
    formSeedData,  \* App: the record the form is seeded with, or null
    isFormOpen,    \* App: whether the form is rendered
    formData,      \* WarrantyForm: its state while it is rendered, else null
    previewData,   \* App: the submitted data under preview, or null
    shareOptions,  \* WarrantyPreviewModal: its state while rendered, else null
    instant,       \* the millisecond the next new Date() of addWarranty reads
    timers,        \* the callbacks scheduled with setTimeout and not yet run
    effects,       \* the calls to the outside made by the last handler and by
                   \* the scheduled callbacks that ran since
    argument,      \* the argument of the utility function under study
    result,        \* what it returned, null before the call
    searchTerm     \* App: the text of the search box of the header

vars == <<warranty, now, info, warranties, loaded, mounted, formSeedData,
          isFormOpen, formData, previewData, shareOptions, instant, timers,
          effects, argument, result, searchTerm>>

statusVars == <<warranty, now, info>>
appVars == <<warranties, loaded, mounted>>
uiVars == <<formSeedData, isFormOpen, formData, previewData, shareOptions, instant>>
ioVars == <<timers, effects>>
fnVars == <<argument, result>>
shellVars == <<uiVars, ioVars, fnVars, searchTerm>>

(***************************************************************************)
(* Bounds of the model.                                                    *)
(***************************************************************************)
MaxProducts == 2     \* products per classified warranty
HorizonDays == 33    \* days the clock may advance past the first day
MaxStored == 2       \* records in the stored collection at the first load
MaxLoads == 2        \* page loads (each runs the migration effect once)
MaxInitial == 2      \* records stored before the record workflow begins
MaxCreated == 2      \* records the record workflow creates
MaxTimers == 1       \* callbacks scheduled and not yet run
MaxFormProducts == 1 \* products in the form before addProduct is refused

(***************************************************************************)
(* Objects.                                                                *)
(***************************************************************************)
Has(o, k) == k \in DOMAIN o

Without(o, ks) == [k \in (DOMAIN o) \ ks |-> o[k]]

\* o.k as a value-or-undefined: <<>> when the key is absent
Opt(o, k) == IF Has(o, k) THEN <<o[k]>> ELSE <<>>

\* { k: v } when v is defined, {} when it is undefined
Bind(k, v) == IF v = <<>> THEN <<>> ELSE (k :> v[1])

NotADate == <<0, 0, 0>>

\* the falsy value of the type a key holds: '' for text, 0 for a number
FalsyOf(k) ==
    CASE k \in {"purchaseDate", "installDate", "phoneNumber"} -> <<>>
      [] k \in {"productWarrantyPeriod", "installationWarrantyPeriod"} -> 0
      [] OTHER -> ""

\* JavaScript truthiness of o.k (objects are always truthy)
Truthy(o, k) ==
    /\ Has(o, k)
    /\ \/ k \in {"servicesProvided", "products"}
       \/ o[k] # FalsyOf(k)

(***************************************************************************)
(* The calendar of the Date object (proleptic Gregorian, local time).      *)
(***************************************************************************)
LocalOffsetHours == 8

IsLeap(y) == (y % 4 = 0 /\ y % 100 # 0) \/ y % 400 = 0

DaysInMonth(y, m) ==
    IF m = 2 THEN (IF IsLeap(y) THEN 29 ELSE 28)
    ELSE IF m \in {4, 6, 9, 11} THEN 30 ELSE 31

LeapsBefore(y) == ((y - 1) \div 4) - ((y - 1) \div 100) + ((y - 1) \div 400)

DaysBeforeYear(y) == 365 * (y - 1970) + LeapsBefore(y) - LeapsBefore(1970)

RECURSIVE DaysBeforeMonth(_, _)
DaysBeforeMonth(y, m) ==
    IF m <= 1 THEN 0 ELSE DaysBeforeMonth(y, m - 1) + DaysInMonth(y, m - 1)

\* MakeDay/MakeDate: the day number of year y, 0-based month index mi (which
\* may exceed 11) and day of month d (which may exceed the month's length)
MakeDay(y, mi, d) ==
    LET yy == y + (mi \div 12)
        mm == (mi % 12) + 1
    IN  DaysBeforeYear(yy) + DaysBeforeMonth(yy, mm) + (d - 1)

RECURSIVE YearFrom(_, _)
YearFrom(n, y) == IF DaysBeforeYear(y + 1) <= n THEN YearFrom(n, y + 1) ELSE y

\* the search starts at a year that is not after the year of day n
YearOfDay(n) ==
    YearFrom(n, IF n >= 0 THEN 1970 + (n \div 366) ELSE 1969 + (n \div 365))

RECURSIVE MonthFrom(_, _, _)
MonthFrom(rest, y, m) ==
    IF m < 12 /\ rest >= DaysInMonth(y, m)
    THEN MonthFrom(rest - DaysInMonth(y, m), y, m + 1)
    ELSE m

MonthOfDay(n) == LET y == YearOfDay(n) IN MonthFrom(n - DaysBeforeYear(y), y, 1)

DomOfDay(n) ==
    LET y == YearOfDay(n)
    IN  n - DaysBeforeYear(y) - DaysBeforeMonth(y, MonthOfDay(n)) + 1

\* Date getters and setters (local time)
DayOf(t) == t \div 24
HourOf(t) == t % 24
getFullYear(t) == YearOfDay(DayOf(t))
getMonth(t) == MonthOfDay(DayOf(t)) - 1
getDate(t) == DomOfDay(DayOf(t))
\* mutant of setDate: a day past the end of the month is the last day
setDate_clamped(t, d) ==
    LET last == DaysInMonth(getFullYear(t), getMonth(t) + 1)
    IN  24 * MakeDay(getFullYear(t), getMonth(t), IF d > last THEN last ELSE d)
        + HourOf(t)

setDate(t, d) == 24 * MakeDay(getFullYear(t), getMonth(t), d) + HourOf(t)
setMonth(t, mi) == 24 * MakeDay(getFullYear(t), mi, getDate(t)) + HourOf(t)
setFullYear(t, y) == 24 * MakeDay(y, getMonth(t), getDate(t)) + HourOf(t)
setHoursZero(t) == 24 * DayOf(t)

IsIsoDate(s) ==
    /\ Len(s) = 3
    /\ s[2] \in 1..12
    /\ s[3] \in 1..DaysInMonth(s[1], s[2])

\* new Date(s) of a date string: UTC midnight of that day, seen in local
\* time; <<>> stands for the Invalid Date
NewDate(s) ==
    IF IsIsoDate(s)
    THEN <<24 * MakeDay(s[1], s[2] - 1, s[3]) + LocalOffsetHours>>
    ELSE <<>>

(***************************************************************************)
(* calculateExpiryDate(startDate, period, unit): startDate is the          *)
(* value-or-undefined of a date string.  Null is <<>>.                     *)
(***************************************************************************)
\* mutant of calculateExpiryDate: a week counts six days
calculateExpiryDate_shortWeeks(startDate, period, unit) ==
    IF startDate = <<>> \/ startDate[1] = <<>> THEN <<>>
    ELSE IF NewDate(startDate[1]) = <<>> THEN <<>>
    ELSE LET date == NewDate(startDate[1])[1]
         IN  CASE unit = "days" -> <<setDate(date, getDate(date) + period)>>
               [] unit = "weeks" -> <<setDate(date, getDate(date) + (period * 6))>>
               [] unit = "months" -> <<setMonth(date, getMonth(date) + period)>>
               [] OTHER -> <<setFullYear(date, getFullYear(date) + period)>>

calculateExpiryDate(startDate, period, unit) ==
    IF startDate = <<>> \/ startDate[1] = <<>> THEN <<>>
    ELSE IF NewDate(startDate[1]) = <<>> THEN <<>>
    ELSE LET date == NewDate(startDate[1])[1]
         IN  CASE unit = "days" -> <<setDate(date, getDate(date) + period)>>
               [] unit = "weeks" -> <<setDate(date, getDate(date) + (period * 7))>>
               [] unit = "months" -> <<setMonth(date, getMonth(date) + period)>>
               [] OTHER -> <<setFullYear(date, getFullYear(date) + period)>>

(***************************************************************************)
(* getWarrantyStatusInfo                                                   *)
(***************************************************************************)
NoInfo == [status |-> "none", color |-> "", expiryDate |-> 0]

\* p.productWarrantyPeriod > 0 (undefined > 0 is false)
Positive(o, k) == Has(o, k) /\ o[k] > 0

UnitOf(o, k) == IF Has(o, k) THEN o[k] ELSE ""

\* mutant of productCounts: a zero period counts as well
productCounts_orZero(p) ==
    Has(p, "productWarrantyPeriod") /\ p.productWarrantyPeriod >= 0

\* line 71: p.productWarrantyPeriod > 0
productCounts(p) == Positive(p, "productWarrantyPeriod")

\* the forEach of lines 69-76
RECURSIVE productExpiries(_)
productExpiries(ps) ==
    IF ps = <<>> THEN <<>>
    ELSE LET p == Head(ps)
             expiry == IF productCounts(p)
                       THEN calculateExpiryDate(Opt(p, "purchaseDate"),
                                p.productWarrantyPeriod,
                                UnitOf(p, "productWarrantyUnit"))
                       ELSE <<>>
         IN  expiry \o productExpiries(Tail(ps))

\* warranty.servicesProvided?.install
installFlag(w) ==
    /\ Has(w, "servicesProvided")
    /\ Has(w.servicesProvided, "install")
    /\ w.servicesProvided.install

\* mutant of installCounts: the install flag is not consulted
installCounts_noFlag(w) ==
    /\ Truthy(w, "installDate")
    /\ Positive(w, "installationWarrantyPeriod")

\* line 78: the condition under which the installation expiry is computed
installCounts(w) ==
    /\ installFlag(w)
    /\ Truthy(w, "installDate")
    /\ Positive(w, "installationWarrantyPeriod")

\* lines 78-83
installExpiries(w) ==
    IF installCounts(w)
    THEN calculateExpiryDate(Opt(w, "installDate"), w.installationWarrantyPeriod,
             UnitOf(w, "installationWarrantyUnit"))
    ELSE <<>>

\* lines 67-83
allExpiryDates(w) ==
    (IF Has(w, "products") /\ Len(w.products) > 0
     THEN productExpiries(w.products) ELSE <<>>)
    \o installExpiries(w)

Range(s) == {s[i] : i \in DOMAIN s}

\* mutant of MathMax: the earliest date instead of the latest
MathMax_earliest(s) == LET r == Range(s) IN CHOOSE x \in r : \A y \in r : x <= y

MathMax(s) == LET r == Range(s) IN CHOOSE x \in r : \A y \in r : y <= x

\* mutant of expiringSoon: only the thirtieth day counts
expiringSoon_onTheDay(latestExpiryDate, thirtyDaysFromNow) ==
    latestExpiryDate = thirtyDaysFromNow

\* mutant of expiringSoon: the thirtieth day is excluded
expiringSoon_exclusive(latestExpiryDate, thirtyDaysFromNow) ==
    latestExpiryDate < thirtyDaysFromNow

\* line 102: latestExpiryDate <= thirtyDaysFromNow
expiringSoon(latestExpiryDate, thirtyDaysFromNow) ==
    latestExpiryDate <= thirtyDaysFromNow

SentinelDate == NewDate(<<9999, 12, 31>>)[1]

getWarrantyStatusInfo(w, clock) ==
    LET dates == allExpiryDates(w)
    IN
    IF Len(dates) = 0
    THEN [status |-> "Active", color |-> "bg-brand-success",
          expiryDate |-> SentinelDate]
    ELSE LET today == setHoursZero(clock)
             latestExpiryDate == setHoursZero(MathMax(dates))
             thirtyDaysFromNow == setHoursZero(setDate(clock, getDate(today) + 30))
         IN  IF latestExpiryDate < today
             THEN [status |-> "Expired", color |-> "bg-brand-danger",
                   expiryDate |-> latestExpiryDate]
             ELSE IF expiringSoon(latestExpiryDate, thirtyDaysFromNow)
             THEN [status |-> "Expiring Soon", color |-> "bg-brand-warning",
                   expiryDate |-> latestExpiryDate]
             ELSE [status |-> "Active", color |-> "bg-brand-success",
                   expiryDate |-> latestExpiryDate]

(***************************************************************************)
(* App: the migration effect (src/App.tsx lines 19-71)                     *)
(***************************************************************************)
LegacyFields ==
    {"productName", "serialNumber", "purchaseDate", "productWarrantyPeriod",
     "productWarrantyUnit"}

\* line 28 (and the first two disjuncts of line 21)
hasLegacyFields(w) == Truthy(w, "productName") \/ Truthy(w, "purchaseDate")

\* line 21: the condition of warranties.some(...)
recordNeedsMigration(w) == hasLegacyFields(w) \/ ~Truthy(w, "servicesProvided")

needsMigration(ws) == \E i \in DOMAIN ws : recordNeedsMigration(ws[i])

\* a || b on values-or-undefined of the type of key k
OrElse(o, k, other) == IF Truthy(o, k) THEN <<o[k]>> ELSE other

\* a ?? b
Nullish(o, k, other) == IF Has(o, k) THEN <<o[k]>> ELSE other

\* mutant of inheritedPeriod: || instead of ??, so a period of 0 is overridden
inheritedPeriod_falsy(p, oldW) ==
    OrElse(p, "productWarrantyPeriod", OrElse(oldW, "productWarrantyPeriod", <<0>>))[1]

\* line 34
inheritedPeriod(p, oldW) ==
    Nullish(p, "productWarrantyPeriod", Nullish(oldW, "productWarrantyPeriod", <<0>>))[1]

\* lines 30-36: an existing product inherits from the parent record
inheritProduct(p, oldW) ==
    Bind("purchaseDate", OrElse(p, "purchaseDate", Opt(oldW, "purchaseDate")))
    @@ [productWarrantyPeriod |-> inheritedPeriod(p, oldW),
        productWarrantyUnit |->
            OrElse(p, "productWarrantyUnit",
                   OrElse(oldW, "productWarrantyUnit", <<"months">>))[1]]
    @@ Without(p, {"purchaseDate", "productWarrantyPeriod", "productWarrantyUnit"})

\* mutant of synthesizedProduct: the serial number is copied without a default
synthesizedProduct_noSerialDefault(oldW) ==
    Bind("purchaseDate", Opt(oldW, "purchaseDate"))
    @@ Bind("serialNumber", Opt(oldW, "serialNumber"))
    @@ [productName |-> OrElse(oldW, "productName", <<"">>)[1],
        productWarrantyPeriod |-> Nullish(oldW, "productWarrantyPeriod", <<0>>)[1],
        productWarrantyUnit |-> OrElse(oldW, "productWarrantyUnit", <<"months">>)[1]]

\* lines 38-44: the single product made of the legacy fields
synthesizedProduct(oldW) ==
    Bind("purchaseDate", Opt(oldW, "purchaseDate"))
    @@ [productName |-> OrElse(oldW, "productName", <<"">>)[1],
        serialNumber |-> OrElse(oldW, "serialNumber", <<"">>)[1],
        productWarrantyPeriod |-> Nullish(oldW, "productWarrantyPeriod", <<0>>)[1],
        productWarrantyUnit |-> OrElse(oldW, "productWarrantyUnit", <<"months">>)[1]]

\* lines 29-44
migratedProducts(oldW) ==
    IF Has(oldW, "products") /\ Len(oldW.products) > 0
    THEN [i \in DOMAIN oldW.products |-> inheritProduct(oldW.products[i], oldW)]
    ELSE <<synthesizedProduct(oldW)>>

\* mutant of cleanUp: the serial number is left on the record
cleanUp_keepsSerial(w) == Without(w, LegacyFields \ {"serialNumber"})

\* lines 51-56: the five deletes
cleanUp(w) == Without(w, LegacyFields)

\* lines 28-57
legacyStep(w) ==
    IF hasLegacyFields(w)
    THEN cleanUp([products |-> migratedProducts(w)] @@ w)
    ELSE w

\* mutant of synthesizedServices: install only when both signals are present
synthesizedServices_both(w) ==
    [supply |-> ~Truthy(w, "installDate") /\ ~Truthy(w, "installationWarrantyPeriod"),
     install |-> Truthy(w, "installDate") /\ Positive(w, "installationWarrantyPeriod")]

\* lines 61-64
synthesizedServices(w) ==
    [supply |-> ~Truthy(w, "installDate") /\ ~Truthy(w, "installationWarrantyPeriod"),
     install |-> Truthy(w, "installDate") \/ Positive(w, "installationWarrantyPeriod")]

\* lines 59-65
servicesStep(w, newWarranty) ==
    IF ~Truthy(w, "servicesProvided")
    THEN [servicesProvided |-> synthesizedServices(w)] @@ newWarranty
    ELSE newWarranty

\* lines 23-68: the callback of warranties.map
migrateWarranty(w) == servicesStep(w, legacyStep(w))

\* mutant of migrationEffect: the purchase date survives the clean-up
migrationEffect_keepsDate(ws) ==
    IF needsMigration(ws)
    THEN [i \in DOMAIN ws |->
            Bind("purchaseDate", Opt(ws[i], "purchaseDate")) @@ migrateWarranty(ws[i])]
    ELSE ws

\* lines 19-71: the value of the store after the effect
migrationEffect(ws) ==
    IF needsMigration(ws)
    THEN [i \in DOMAIN ws |-> migrateWarranty(ws[i])]
    ELSE ws

(***************************************************************************)
(* The classifier on its own: a card renders one warranty while the days   *)
(* pass.  The warranty ranges over a pool of products and installation     *)
(* data chosen around the clock's window (30 Jan 2024 .. 3 Mar 2024, which *)
(* spans the leap day), so that expiries fall before, on, 30 and 31 days   *)
(* after the current day.                                                  *)
(***************************************************************************)
Product(name, serial, date, period, unit) ==
    [productName |-> name, serialNumber |-> serial, purchaseDate |-> date,
     productWarrantyPeriod |-> period, productWarrantyUnit |-> unit]

ProductPool ==
    { Product("Fan", "SN1", <<2024, 1, 31>>, 1, "months"),   \* 2 Mar 2024
      Product("Lamp", "SN2", <<2024, 1, 31>>, 14, "days"),   \* 14 Feb 2024
      Product("Pump", "SN4", <<2020, 2, 29>>, 4, "years"),   \* 29 Feb 2024
      Product("Cable", "", <<2020, 1, 1>>, 0, "years"),      \* no period
      Product("Bulb", "SN6", NotADate, 1, "years"),          \* unparseable
      Product("Hose", "", <<>>, 3, "days") }                 \* no date

Services(supply, install) == [supply |-> supply, install |-> install]

Installation(date, period, unit) ==
    [installDate |-> date, installationWarrantyPeriod |-> period,
     installationWarrantyUnit |-> unit]

InstallPool ==
    { [servicesProvided |-> Services(TRUE, FALSE)] @@ Installation(<<>>, 0, "months"),
      [servicesProvided |-> Services(TRUE, FALSE)] @@ Installation(<<2024, 2, 20>>, 1, "months"),
      [servicesProvided |-> Services(FALSE, TRUE)] @@ Installation(<<2024, 2, 1>>, 1, "months"),
      [servicesProvided |-> Services(TRUE, TRUE)] @@ Installation(<<2024, 2, 20>>, 2, "weeks"),
      [servicesProvided |-> Services(FALSE, TRUE)] @@ Installation(NotADate, 1, "years"),
      [servicesProvided |-> Services(FALSE, TRUE)] @@ Installation(<<>>, 1, "years"),
      [servicesProvided |-> Services(FALSE, TRUE)] @@ Installation(<<2024, 2, 1>>, 0, "days"),
      [servicesProvided |-> Services(FALSE, TRUE)]
          @@ [installationWarrantyPeriod |-> 1, installationWarrantyUnit |-> "months"],
      Installation(<<2024, 2, 20>>, 1, "months") }

SeqsUpTo(S, n) == UNION {[1..k -> S] : k \in 0..n}

\* sequences without repetition
DistinctSeqsUpTo(S, n) ==
    {s \in SeqsUpTo(S, n) : \A i, j \in DOMAIN s : s[i] = s[j] => i = j}

Customer ==
    [customerName |-> "Ali",
     phoneNumber |-> <<"0", "1", "2", "-", "3", "4", "5", "6", "7", "8", "9">>,
     email |-> "ali@example.com"]

WarrantyPool ==
    { [id |-> 1] @@ Customer @@ [products |-> ps] @@ inst :
          ps \in DistinctSeqsUpTo(ProductPool, MaxProducts), inst \in InstallPool }
    \cup { [id |-> 1] @@ Customer @@ inst : inst \in InstallPool }

FirstDay == MakeDay(2024, 0, 30)

ClockHours == {0, 14}

InitApp0 == warranties = <<>> /\ loaded = <<>> /\ mounted = FALSE

\* no form, no preview, nothing scheduled, no function under study
InitShell0 ==
    /\ formSeedData = <<>> /\ isFormOpen = FALSE /\ formData = <<>>
    /\ previewData = <<>> /\ shareOptions = <<>>
    /\ instant = 0
    /\ timers = <<>> /\ effects = <<>>
    /\ argument = <<>> /\ result = <<>>
    /\ searchTerm = ""

InitStatus ==
    /\ warranty \in WarrantyPool
    /\ now \in {24 * FirstDay + h : h \in ClockHours}
    /\ info = NoInfo
    /\ InitApp0
    /\ InitShell0

\* WarrantyCard / WarrantyStatusBadge render: getWarrantyStatusInfo(warranty)
Render ==
    /\ info = NoInfo
    /\ info' = getWarrantyStatusInfo(warranty, now)
    /\ UNCHANGED <<warranty, now>>
    /\ UNCHANGED appVars
    /\ UNCHANGED shellVars

\* the clock reaches the next day; the rendered status is stale
DayPasses ==
    /\ DayOf(now) < FirstDay + HorizonDays
    /\ now' = now + 24
    /\ info' = NoInfo
    /\ UNCHANGED warranty
    /\ UNCHANGED appVars
    /\ UNCHANGED shellVars

NextStatus == Render \/ DayPasses

SpecStatus == InitStatus /\ [][NextStatus]_vars

(***************************************************************************)
(* What the specification calls the collected expiries of a warranty.      *)
(***************************************************************************)
ProductsOf(w) == IF Has(w, "products") THEN w.products ELSE <<>>

Parseable(o, k) == Has(o, k) /\ IsIsoDate(o[k])

CollectedProducts(w) ==
    { calculateExpiryDate(<<p.purchaseDate>>, p.productWarrantyPeriod,
                          p.productWarrantyUnit)[1] :
        p \in { q \in Range(ProductsOf(w)) :
                  q.productWarrantyPeriod > 0 /\ Parseable(q, "purchaseDate") } }

InstallQualifies(w) ==
    /\ Has(w, "servicesProvided") /\ w.servicesProvided.install
    /\ Parseable(w, "installDate")
    /\ Has(w, "installationWarrantyPeriod") /\ w.installationWarrantyPeriod > 0

CollectedInstall(w) ==
    IF InstallQualifies(w)
    THEN { calculateExpiryDate(<<w.installDate>>, w.installationWarrantyPeriod,
                               w.installationWarrantyUnit)[1] }
    ELSE {}

Collected(w) == CollectedProducts(w) \cup CollectedInstall(w)

LatestDay(w) ==
    LET days == {DayOf(e) : e \in Collected(w)}
    IN  CHOOSE d \in days : \A e \in days : e <= d

Today == DayOf(now)

Rendered == info # NoInfo

\* C1: with at least one collected expiry, the status is Expired if and only
\* if every collected expiry lies on a day before today (one unexpired item
\* keeps the warranty from being Expired), and the returned expiryDate is the
\* latest collected expiry at midnight.
C1_LatestExpiryDecides ==
    LET collected == Collected(warranty)
    IN  (Rendered /\ collected # {}) =>
            /\ (info.status = "Expired") <=> (\A e \in collected : DayOf(e) < Today)
            /\ info.expiryDate = 24 * LatestDay(warranty)

\* a rendered warranty with an expired and an unexpired item
C1_Witness ==
    /\ Rendered
    /\ \E e \in Collected(warranty) : DayOf(e) < Today
    /\ \E e \in Collected(warranty) : DayOf(e) >= Today
    /\ info.status # "Expired"

\* C2: with L the latest collected expiry and T the current day, the status
\* is Expired when L < T, Expiring Soon when T <= L <= T+30 and Active when
\* L > T+30.
C2_ThirtyDayWindow ==
    (Rendered /\ Collected(warranty) # {}) =>
        LET L == LatestDay(warranty)
        IN  info.status = IF L < Today THEN "Expired"
                          ELSE IF L <= Today + 30 THEN "Expiring Soon"
                          ELSE "Active"

\* the boundary: the latest expiry is exactly thirty days ahead
C2_Witness ==
    /\ Rendered
    /\ Collected(warranty) # {}
    /\ LatestDay(warranty) = Today + 30
    /\ info.status = "Expiring Soon"

\* C3: a warranty with no collected expiry is Active with the year-9999
\* sentinel as its expiry date on every day; a zero-period product adds no
\* expiry however old its purchase date.
C3_NoExpiryIsActive ==
    (Rendered /\ Collected(warranty) = {}) =>
        /\ info.status = "Active"
        /\ info.expiryDate = SentinelDate
        /\ getFullYear(info.expiryDate) = 9999

\* a rendered warranty whose only dated product has period 0 and was bought
\* long before today
C3_Witness ==
    /\ Rendered
    /\ Collected(warranty) = {}
    /\ \E p \in Range(ProductsOf(warranty)) :
          /\ p.productWarrantyPeriod = 0
          /\ Parseable(p, "purchaseDate")
          /\ DayOf(NewDate(p.purchaseDate)[1]) < Today
    /\ info.status = "Active"

InstallDateChoices == {<<>>, <<2023, 1, 1>>, <<2024, 2, 20>>, <<2030, 1, 1>>}

\* C4: the installation expiry is collected exactly when install is true, the
\* install date is set and parseable and the installation period is positive;
\* with install false or servicesProvided absent, no install date and no
\* installation period changes the returned status or expiry date.
C4_InstallNeedsFlag ==
    Rendered =>
        /\ (Len(installExpiries(warranty)) = 1) <=> InstallQualifies(warranty)
        /\ Len(allExpiryDates(warranty)) =
               Cardinality({i \in DOMAIN ProductsOf(warranty) :
                   /\ ProductsOf(warranty)[i].productWarrantyPeriod > 0
                   /\ Parseable(ProductsOf(warranty)[i], "purchaseDate")})
               + (IF InstallQualifies(warranty) THEN 1 ELSE 0)
        /\ ~installFlag(warranty) =>
               \A d \in InstallDateChoices, q \in 0..1 :
                   getWarrantyStatusInfo(
                       [installDate |-> d, installationWarrantyPeriod |-> q] @@ warranty,
                       now) = info

\* install is false while the stored installation data would, if counted,
\* be the latest expiry
C4_Witness ==
    /\ Rendered
    /\ Has(warranty, "servicesProvided") /\ ~warranty.servicesProvided.install
    /\ Parseable(warranty, "installDate")
    /\ warranty.installationWarrantyPeriod > 0
    /\ Collected(warranty) # {}
    /\ DayOf(calculateExpiryDate(<<warranty.installDate>>,
                 warranty.installationWarrantyPeriod,
                 warranty.installationWarrantyUnit)[1]) > LatestDay(warranty)
    /\ info.status = "Expired"

(***************************************************************************)
(* The application: the stored collection across page loads.  The first    *)
(* load finds whatever earlier versions of the application stored: a       *)
(* record combines a shape of legacy top-level product fields, a shape of  *)
(* the products array and a shape of services/installation data.           *)
(***************************************************************************)
LegacyPool ==
    { <<>>,
      [productName |-> "Fan", purchaseDate |-> <<2023, 6, 1>>,
       productWarrantyPeriod |-> 2, productWarrantyUnit |-> "years"],
      [productName |-> "Fan"],
      [purchaseDate |-> <<2023, 6, 1>>, serialNumber |-> "SN9"],
      [serialNumber |-> "SN9", productWarrantyPeriod |-> 2,
       productWarrantyUnit |-> "years"],
      [productName |-> "", serialNumber |-> "", purchaseDate |-> <<>>,
       productWarrantyPeriod |-> 0, productWarrantyUnit |-> "months"] }

StoredProductsPool ==
    { <<>>,
      [products |-> <<>>],
      [products |-> <<Product("Lamp", "SN2", <<2024, 1, 31>>, 1, "weeks")>>],
      [products |-> <<[productName |-> "Pump", serialNumber |-> "SN4"],
                      Product("Lamp", "SN2", <<2024, 1, 31>>, 1, "weeks")>>],
      [products |-> <<Product("Plug", "", <<>>, 0, "")>>] }

StoredServicesPool ==
    { <<>>,
      Installation(<<2024, 2, 1>>, 1, "months"),
      [installDate |-> <<2024, 2, 1>>],
      [installationWarrantyPeriod |-> 2, installationWarrantyUnit |-> "years"],
      Installation(<<>>, 0, "months"),
      [servicesProvided |-> Services(TRUE, FALSE)] @@ Installation(<<>>, 0, "months"),
      [servicesProvided |-> Services(FALSE, TRUE)]
          @@ Installation(<<2024, 2, 1>>, 1, "months") }

StoredPool ==
    { Customer @@ l @@ ps @@ sv :
          l \in LegacyPool, ps \in StoredProductsPool, sv \in StoredServicesPool }

\* the records that accompany the one that ranges over the whole pool: a
\* record of the current shape, a legacy record and a record that lacks only
\* servicesProvided
CompanionPool ==
    { Customer @@ [products |-> <<Product("Lamp", "SN2", <<2024, 1, 31>>, 1, "weeks")>>]
          @@ [servicesProvided |-> Services(TRUE, FALSE)] @@ Installation(<<>>, 0, "months"),
      Customer @@ [productName |-> "Fan", purchaseDate |-> <<2023, 6, 1>>,
                   productWarrantyPeriod |-> 2, productWarrantyUnit |-> "years"],
      Customer @@ [products |-> <<>>] @@ Installation(<<2024, 2, 1>>, 1, "months") }

InsertAt(s, i, e) ==
    [j \in 1..(Len(s) + 1) |-> IF j < i THEN s[j] ELSE IF j = i THEN e ELSE s[j - 1]]

\* Date.prototype.toISOString of the instant t (in milliseconds): the text
\* "...ss.mmmZ", kept as the pair of what precedes the dot and what follows
toISOString(t) == <<t \div 1000, t % 1000>>

\* ids are creation timestamps; the stored records were created one by one
WithIds(s) == [i \in DOMAIN s |-> [id |-> toISOString(i)] @@ s[i]]

StoredCollections ==
    { WithIds(s) : s \in SeqsUpTo(CompanionPool, MaxStored) }
    \cup UNION { { WithIds(InsertAt(cs, i, r)) :
                       i \in 1..(Len(cs) + 1), r \in StoredPool } :
                   cs \in SeqsUpTo(CompanionPool, MaxStored - 1) }

InitStatus0 ==
    /\ warranty = [id |-> 1] @@ Customer
    /\ now = 24 * FirstDay
    /\ info = NoInfo

Init ==
    /\ warranties \in StoredCollections
    /\ loaded = <<>>
    /\ mounted = FALSE
    /\ InitStatus0
    /\ InitShell0

\* line 69 (and lines 80, 84, 91): the setter of useLocalStorage is called
SetWarranties == [call |-> "setWarranties"]

\* part_001 line 27: the comparator; NaN counts as 0
listCompare(a, b) ==
    LET ta == IF Has(a, "purchaseDate") THEN NewDate(a.purchaseDate) ELSE <<>>
        tb == IF Has(b, "purchaseDate") THEN NewDate(b.purchaseDate) ELSE <<>>
    IN  IF ta = <<>> \/ tb = <<>> THEN 0 ELSE tb[1] - ta[1]

\* x placed after the last record that does not sort after it
RECURSIVE listInsert(_, _)
listInsert(sorted, x) ==
    IF sorted = <<>> THEN <<x>>
    ELSE LET last == sorted[Len(sorted)]
         IN  IF listCompare(last, x) > 0
             THEN Append(listInsert(SubSeq(sorted, 1, Len(sorted) - 1), x), last)
             ELSE Append(sorted, x)

\* part_001 line 27: warranties.sort(...), a stable sort that works on the
\* array it is given, which is the state itself while nothing is searched
RECURSIVE listSort(_)
listSort(ws) ==
    IF ws = <<>> THEN <<>>
    ELSE listInsert(listSort(SubSeq(ws, 1, Len(ws) - 1)), ws[Len(ws)])

\* the page loads: useLocalStorage reads the stored collection, the first
\* render lists it (with no search term the list receives the array itself
\* and sorts it in place) and the effect of lines 19-71 runs once
Mount ==
    /\ ~mounted
    /\ Len(loaded) < MaxLoads
    /\ mounted' = TRUE
    /\ loaded' = Append(loaded, warranties)
    /\ warranties' = migrationEffect(listSort(warranties))
    /\ effects' = (IF needsMigration(warranties) THEN <<SetWarranties>> ELSE <<>>)
    /\ UNCHANGED statusVars
    /\ UNCHANGED <<uiVars, timers, fnVars, searchTerm>>

\* the page is closed or reloaded; the stored collection stays
Unmount ==
    /\ mounted
    /\ mounted' = FALSE
    /\ UNCHANGED <<warranties, loaded>>
    /\ UNCHANGED statusVars
    /\ UNCHANGED shellVars

Next == Mount \/ Unmount

Spec == Init /\ [][Next]_vars

\* the collection the last load read from storage
LastLoaded == loaded[Len(loaded)]

\* C5: the migration pass is idempotent: when a load has run it, running it
\* again on the result gives the same collection, and in the result no record
\* satisfies either trigger condition.
C5_MigrationIdempotent ==
    [][Mount =>
        /\ migrationEffect(warranties') = warranties'
        /\ ~needsMigration(warranties')
        /\ \A i \in DOMAIN warranties' :
              /\ ~hasLegacyFields(warranties'[i])
              /\ Has(warranties'[i], "servicesProvided")]_vars

\* a second load has run the pass on the result of a first load that had
\* changed the collection
C5_Witness ==
    /\ mounted
    /\ Len(loaded) = 2
    /\ needsMigration(loaded[1])
    /\ loaded[2] # loaded[1]
    /\ warranties = loaded[2]

\* C6 as stated: after the pass every record has servicesProvided and none
\* of the five top-level legacy product fields.
C6_NoLegacyFieldRemains ==
    mounted =>
        \A i \in DOMAIN warranties :
            /\ Has(warranties[i], "servicesProvided")
            /\ DOMAIN warranties[i] \cap LegacyFields = {}

\* C6 amended: after the pass every record has servicesProvided, no record
\* has a non-empty top-level productName or purchaseDate, and a record that
\* had one carries none of the five legacy fields; the others keep the
\* top-level fields they had.
C6_LegacyRecordsCleaned ==
    [][Mount =>
        \A i \in DOMAIN warranties' :
            /\ Has(warranties'[i], "servicesProvided")
            /\ ~Truthy(warranties'[i], "productName")
            /\ ~Truthy(warranties'[i], "purchaseDate")
            /\ hasLegacyFields(warranties[i]) =>
                   DOMAIN warranties'[i] \cap LegacyFields = {}
            /\ ~hasLegacyFields(warranties[i]) =>
                   DOMAIN warranties'[i] \cap LegacyFields =
                       DOMAIN warranties[i] \cap LegacyFields]_vars

\* a legacy record with a serial number has been cleaned
C6_Witness ==
    /\ mounted
    /\ \E i \in DOMAIN warranties :
          /\ hasLegacyFields(LastLoaded[i])
          /\ Has(LastLoaded[i], "serialNumber")
          /\ DOMAIN warranties[i] \cap LegacyFields = {}

\* C7 as stated: once the migration has run, products is a sequence in every
\* record and never absent.
C7_ProductsNeverAbsent ==
    mounted => \A i \in DOMAIN warranties : Has(warranties[i], "products")

\* defaults of C8: the value of a text field, '' or the given text when it is
\* absent or empty
TextOr(o, k, default) == IF Has(o, k) /\ o[k] # "" THEN o[k] ELSE default

FanExample ==
    [productName |-> "Fan", purchaseDate |-> <<2023, 6, 1>>,
     productWarrantyPeriod |-> 2, productWarrantyUnit |-> "years"]

Defines(p, k) == IF k = "productWarrantyPeriod" THEN Has(p, k) ELSE Truthy(p, k)

\* the value an undefined field of a product is filled with
FilledFrom(parent, k) ==
    IF Defines(parent, k) THEN <<parent[k]>>
    ELSE CASE k = "productWarrantyPeriod" -> <<0>>
           [] k = "productWarrantyUnit" -> <<"months">>
           [] OTHER -> Opt(parent, k)

\* C9: for a record with legacy top-level fields and a non-empty products
\* sequence the pass keeps the number and order of the products; each product
\* keeps its name, its serial number and every one of purchaseDate, period
\* and unit that it defines, and a field it does not define is filled from
\* the parent, else from the defaults 0 and 'months'.
C9_ProductsMergedNotReplaced ==
    [][Mount =>
        \A i \in DOMAIN warranties :
            LET old == warranties[i]
            IN  (hasLegacyFields(old) /\ Has(old, "products") /\ old.products # <<>>) =>
                    /\ Has(warranties'[i], "products")
                    /\ Len(warranties'[i].products) = Len(old.products)
                    /\ \A j \in DOMAIN old.products :
                          LET p == old.products[j]
                              q == warranties'[i].products[j]
                          IN  /\ Opt(q, "productName") = Opt(p, "productName")
                              /\ Opt(q, "serialNumber") = Opt(p, "serialNumber")
                              /\ \A k \in {"purchaseDate", "productWarrantyPeriod",
                                           "productWarrantyUnit"} :
                                    Opt(q, k) = IF Defines(p, k) THEN <<p[k]>>
                                                ELSE FilledFrom(old, k)]_vars

\* a product with period 0 and no date of its own under a parent that has
\* a period and a date: the period stays 0 and the date is inherited
C9_Witness ==
    /\ mounted
    /\ \E i \in DOMAIN warranties :
          /\ hasLegacyFields(LastLoaded[i])
          /\ Truthy(LastLoaded[i], "purchaseDate")
          /\ Positive(LastLoaded[i], "productWarrantyPeriod")
          /\ Has(LastLoaded[i], "products")
          /\ \E j \in DOMAIN LastLoaded[i].products :
                /\ Opt(LastLoaded[i].products[j], "productWarrantyPeriod") = <<0>>
                /\ ~Truthy(LastLoaded[i].products[j], "purchaseDate")
                /\ warranties[i].products[j].productWarrantyPeriod = 0
                /\ warranties[i].products[j].purchaseDate = LastLoaded[i].purchaseDate

InstallDatePresent(w) == Has(w, "installDate") /\ w.installDate # <<>>

InstallPeriodPositive(w) ==
    Has(w, "installationWarrantyPeriod") /\ w.installationWarrantyPeriod > 0

\* C10: for a record without servicesProvided the pass sets supply to true
\* exactly when there is no install date and no positive installation period,
\* and install to true exactly when there is an install date or a positive
\* installation period; a record that has servicesProvided keeps it.
C10_ServicesSynthesized ==
    [][Mount =>
        \A i \in DOMAIN warranties :
            LET old == warranties[i]
                new == warranties'[i]
            IN  /\ ~Has(old, "servicesProvided") =>
                      /\ Has(new, "servicesProvided")
                      /\ new.servicesProvided.supply =
                             (~InstallDatePresent(old) /\ ~InstallPeriodPositive(old))
                      /\ new.servicesProvided.install =
                             (InstallDatePresent(old) \/ InstallPeriodPositive(old))
                /\ Has(old, "servicesProvided") =>
                      Opt(new, "servicesProvided") = Opt(old, "servicesProvided")]_vars

\* a record without servicesProvided and with only an installation period
\* has become an install-only record
C10_Witness ==
    /\ mounted
    /\ \E i \in DOMAIN warranties :
          /\ ~Has(LastLoaded[i], "servicesProvided")
          /\ ~Has(LastLoaded[i], "installDate")
          /\ InstallPeriodPositive(LastLoaded[i])
          /\ warranties[i].servicesProvided = Services(FALSE, TRUE)

(***************************************************************************)
(* Texts whose characters matter.                                          *)
(***************************************************************************)
DigitChars == <<"0", "1", "2", "3", "4", "5", "6", "7", "8", "9">>

\* \d
IsDigit(c) == c \in Range(DigitChars)

\* String.prototype.startsWith
startsWith(s, prefix) ==
    /\ Len(s) >= Len(prefix)
    /\ SubSeq(s, 1, Len(prefix)) = prefix

\* parseInt(value, 10) of the text of a number input (no sign, no blanks):
\* the number its leading digits denote, <<>> for NaN
parseInt(value) ==
    LET DigitValue(c) == (CHOOSE i \in DOMAIN DigitChars : DigitChars[i] = c) - 1
        RECURSIVE Read(_, _)
        Read(s, acc) ==
            IF s = <<>> \/ ~IsDigit(Head(s)) THEN acc
            ELSE Read(Tail(s), (10 * acc) + DigitValue(Head(s)))
    IN  IF value = <<>> \/ ~IsDigit(Head(value)) THEN <<>> ELSE <<Read(value, 0)>>

(***************************************************************************)
(* formatPhoneNumberForWhatsApp (src/utils/warrantyUtils.ts lines 108-118) *)
(***************************************************************************)
\* mutant of countryPrefixed: the prefix is added to every number
countryPrefixed_always(cleaned) == <<"6", "0">> \o cleaned

\* lines 114-116
countryPrefixed(cleaned) ==
    IF ~startsWith(cleaned, <<"6", "0">>) THEN <<"6", "0">> \o cleaned ELSE cleaned

\* mutant of formatPhoneNumberForWhatsApp: the non-digits are kept
formatPhoneNumberForWhatsApp_unstripped(phone) ==
    IF phone = <<>> THEN <<>>
    ELSE countryPrefixed(IF startsWith(phone, <<"0">>) THEN <<"6">> \o phone ELSE phone)

formatPhoneNumberForWhatsApp(phone) ==
    IF phone = <<>> THEN <<>>
    ELSE LET cleaned == SelectSeq(phone, IsDigit)
         IN  countryPrefixed(IF startsWith(cleaned, <<"0">>)
                             THEN <<"6">> \o cleaned ELSE cleaned)

(***************************************************************************)
(* formatDate, formatWarrantyText, getServiceText (lines 9-26, 120-141).   *)
(* A formatted date is the tuple of its characters; the fixed texts are     *)
(* one-element tuples.                                                     *)
(***************************************************************************)
\* String(n) of a natural number: its decimal digits
RECURSIVE String(_)
String(n) ==
    IF n < 10 THEN <<DigitChars[n + 1]>>
    ELSE Append(String(n \div 10), DigitChars[(n % 10) + 1])

\* mutant of padStart: nothing is put in front
padStart_none(text, targetLength, padString) == text

\* text.padStart(targetLength, padString) with a pad of one character
RECURSIVE padStart(_, _, _)
padStart(text, targetLength, padString) ==
    IF Len(text) >= targetLength THEN text
    ELSE padStart(<<padString>> \o text, targetLength, padString)

\* lines 12-25, for a Date object (<<>> is the Invalid Date)
formatDateObj(dateObj) ==
    IF dateObj = <<>> THEN <<"Invalid Date">>
    ELSE IF getFullYear(dateObj[1]) > 9000 THEN <<"Does not expire">>
    ELSE LET day == padStart(String(getDate(dateObj[1])), 2, "0")
             month == padStart(String(getMonth(dateObj[1]) + 1), 2, "0")
             year == getFullYear(dateObj[1])
         IN  day \o <<"/">> \o month \o <<"/">> \o String(year)

\* formatDate of a Date object or null
formatDate(date) == IF date = <<>> THEN <<"N/A">> ELSE formatDateObj(date)

\* formatDate of a date string or undefined
formatDateText(date) ==
    IF date = <<>> \/ date[1] = <<>> THEN <<"N/A">>
    ELSE formatDateObj(NewDate(date[1]))

\* unit.slice(0, -1)
Singular(unit) ==
    CASE unit = "days" -> "day"
      [] unit = "weeks" -> "week"
      [] unit = "months" -> "month"
      [] unit = "years" -> "year"
      [] OTHER -> ""

formatWarrantyText(period, unit) ==
    IF period = 0 THEN <<0, unit>>
    ELSE <<period, IF period = 1 THEN Singular(unit) ELSE unit>>

\* the argument is the value-or-undefined of servicesProvided
getServiceText(services) ==
    IF services = <<>> THEN "N/A"
    ELSE LET supply == services[1].supply
             install == services[1].install
         IN  IF supply /\ ~install THEN "Supply Only"
             ELSE IF ~supply /\ install THEN "Install"
             ELSE IF supply /\ install THEN "Supply & Install"
             ELSE "N/A"

(***************************************************************************)
(* generateShareMessage (lines 143-225).  A message is the sequence of its *)
(* lines; a line is the tuple of its fixed text and of the values it       *)
(* interpolates.                                                           *)
(***************************************************************************)
\* the expiry of a product as lines 154, 168 and 199 compute it; null as
\* well when the period is undefined (the date is then invalid)
productExpiry(p) ==
    IF Has(p, "productWarrantyPeriod")
    THEN calculateExpiryDate(Opt(p, "purchaseDate"), p.productWarrantyPeriod,
             UnitOf(p, "productWarrantyUnit"))
    ELSE <<>>

\* mutant of isUnexpired: what expires today is no longer covered
isUnexpired_afterToday(expiry, today) == expiry # <<>> /\ expiry[1] >= today + 24

\* expiry ? expiry >= today : false
isUnexpired(expiry, today) == expiry # <<>> /\ expiry[1] >= today

\* lines 152-156 (and the find of handleNotify): the callback
isUnexpiredProduct(p, today) ==
    /\ Positive(p, "productWarrantyPeriod")
    /\ isUnexpired(productExpiry(p), today)

\* mutant of unexpiredProducts: every product with a period is kept
unexpiredProducts_all(w, today) ==
    IF Has(w, "products")
    THEN <<SelectSeq(w.products, LAMBDA p : Positive(p, "productWarrantyPeriod"))>>
    ELSE <<>>

\* lines 152-156: warranty.products?.filter(...), undefined without products
unexpiredProducts(w, today) ==
    IF Has(w, "products")
    THEN <<SelectSeq(w.products, LAMBDA p : isUnexpiredProduct(p, today))>>
    ELSE <<>>

\* lines 158-160
installationExpiry(w) ==
    IF Truthy(w, "installDate") /\ Positive(w, "installationWarrantyPeriod")
    THEN calculateExpiryDate(Opt(w, "installDate"), w.installationWarrantyPeriod,
             UnitOf(w, "installationWarrantyUnit"))
    ELSE <<>>

\* line 161
isInstallationUnexpired(w, today) == isUnexpired(installationExpiry(w), today)

\* lines 169-173 and 200-204: label is <<"Item">> or <<"Item", i>>
productLines(p, label) ==
    << label \o Opt(p, "productName"),
       <<"Serial Number">> \o Opt(p, "serialNumber"),
       <<"Purchase Date", formatDateText(Opt(p, "purchaseDate"))>>,
       <<"Warranty", formatWarrantyText(Nullish(p, "productWarrantyPeriod", <<0>>)[1],
                                        UnitOf(p, "productWarrantyUnit"))>>,
       <<"Expires on", formatDate(productExpiry(p))>> >>

\* the forEach of lines 167-174 (numbered is false) and of lines 198-205
RECURSIVE itemLines(_, _, _)
itemLines(ps, i, numbered) ==
    IF ps = <<>> THEN <<>>
    ELSE productLines(Head(ps), IF numbered THEN <<"Item", i>> ELSE <<"Item">>)
         \o itemLines(Tail(ps), i + 1, numbered)

Greeting(w) == <<"Hi">> \o Opt(w, "customerName")

\* lines 165-176
reminderProductSection(w, today) ==
    LET unexpired == unexpiredProducts(w, today)
    IN  IF unexpired # <<>> /\ Len(unexpired[1]) > 0
        THEN <<<<"--- Products & Warranties ---">>>> \o itemLines(unexpired[1], 1, FALSE)
        ELSE <<>>

\* mutant of reminderInstallShown: the install flag is not consulted
reminderInstallShown_noFlag(w, today) == isInstallationUnexpired(w, today)

\* line 178
reminderInstallShown(w, today) ==
    installFlag(w) /\ isInstallationUnexpired(w, today)

\* lines 178-185
reminderInstallSection(w, today) ==
    IF reminderInstallShown(w, today)
    THEN << <<"--- Service Information ---">>,
            <<"Service Type: Installation">>,
            <<"Installation Date", formatDateText(Opt(w, "installDate"))>>,
            <<"Installation Warranty",
              formatWarrantyText(w.installationWarrantyPeriod,
                                 UnitOf(w, "installationWarrantyUnit"))>>,
            <<"Installation Warranty Expires", formatDate(installationExpiry(w))>> >>
    ELSE <<>>

\* line 188
reminderFallback(w) ==
    << Greeting(w),
       <<"This is a friendly reminder regarding your warranties. Please review your records for items that may be expiring soon.">>,
       <<"Thank you!">> >>

\* lines 146-191
reminderMessage(w, clock) ==
    LET today == setHoursZero(clock)
        content == reminderProductSection(w, today) \o reminderInstallSection(w, today)
    IN  IF content = <<>> THEN reminderFallback(w)
        ELSE << Greeting(w),
                <<"This is a friendly reminder that the warranty for the following item(s) is expiring soon. Here are the details:">> >>
             \o content \o <<<<"Thank you!">>>>

\* lines 211-218
shareInstallLines(w) ==
    IF installFlag(w)
    THEN <<<<"Installation Date", formatDateText(Opt(w, "installDate"))>>>>
         \o (IF Positive(w, "installationWarrantyPeriod")
             THEN << <<"Installation Warranty",
                       formatWarrantyText(w.installationWarrantyPeriod,
                                          UnitOf(w, "installationWarrantyUnit"))>>,
                     <<"Installation Warranty Expires",
                       formatDate(IF Truthy(w, "installDate")
                                  THEN calculateExpiryDate(Opt(w, "installDate"),
                                           w.installationWarrantyPeriod,
                                           UnitOf(w, "installationWarrantyUnit"))
                                  ELSE <<>>)>> >>
             ELSE <<>>)
    ELSE <<>>

\* lines 193-222
shareMessage(w) ==
    << Greeting(w), <<"Here are the warranty details for your recent purchase:">> >>
    \o (IF Has(w, "products") /\ Len(w.products) > 0
        THEN <<<<"--- Products & Warranties ---">>>> \o itemLines(w.products, 1, TRUE)
        ELSE <<>>)
    \o << <<"--- Service Information ---">>,
          <<"Services Provided", getServiceText(Opt(w, "servicesProvided"))>> >>
    \o shareInstallLines(w)
    \o <<<<"Thank you for your purchase!">>>>

generateShareMessage(w, isReminder, clock) ==
    IF isReminder THEN reminderMessage(w, clock) ELSE shareMessage(w)

(***************************************************************************)
(* triggerShare (lines 227-252) and handleNotify (WarrantyCard.tsx lines   *)
(* 40-72, WarrantyDetailModal.tsx lines 32-63).  A call made to the        *)
(* outside is a record of its name and arguments; the URL encoding of the  *)
(* subject and of the message is not modelled.                             *)
(***************************************************************************)
ShareDelay == 500

Mailto(w, subject, message) ==
    [call |-> "location.href", to |-> Opt(w, "email"), subject |-> subject,
     body |-> message]

\* lines 241-244 (and lines 60-61 of handleNotify)
triggerWhatsApp(w, message) ==
    [call |-> "window.open",
     to |-> formatPhoneNumberForWhatsApp(w.phoneNumber),
     text |-> message]

\* line 234
shareSubject(w) ==
    <<"Warranty Details for",
      IF Len(w.products) > 0
      THEN OrElse(w.products[1], "productName", <<"Your Purchase">>)[1]
      ELSE "Your Purchase">>

\* mutant of whatsAppStep: WhatsApp opens at once even when e-mail is sent
whatsAppStep_immediate(w, options, message) ==
    IF options.whatsapp THEN <<triggerWhatsApp(w, message)>> ELSE <<>>

\* lines 240-251
whatsAppStep(w, options, message) ==
    IF options.whatsapp
    THEN IF options.email
         THEN <<[call |-> "setTimeout", delay |-> ShareDelay,
                 run |-> triggerWhatsApp(w, message)]>>
         ELSE <<triggerWhatsApp(w, message)>>
    ELSE <<>>

\* the calls triggerShare makes before it returns, in order
triggerShare(w, options, clock) ==
    IF ~options.email /\ ~options.whatsapp THEN <<>>
    ELSE LET message == generateShareMessage(w, FALSE, clock)
         IN  <<[call |-> "generateShareMessage"]>>
             \o (IF options.email
                 THEN <<Mailto(w, shareSubject(w), message)>> ELSE <<>>)
             \o whatsAppStep(w, options, message)

\* the callbacks a sequence of calls leaves scheduled
Scheduled(calls) == SelectSeq(calls, LAMBDA c : c.call = "setTimeout")

\* handleNotify, the e-mail branch up to the subject: the value-or-undefined
\* of the text after "Warranty Expiry Reminder - "
subjectTarget(w, today) ==
    LET unexpired == SelectSeq(w.products, LAMBDA p : isUnexpiredProduct(p, today))
    IN  IF unexpired # <<>> THEN Opt(unexpired[1], "productName")
        ELSE IF isInstallationUnexpired(w, today) THEN <<"Installation Service">>
        ELSE <<"Your Product/Service">>

\* the calls handleNotify(channel) makes; warranty.products.find throws on a
\* record without a products array, after the message was composed
handleNotifyCalls(w, channel, clock) ==
    LET message == generateShareMessage(w, TRUE, clock)
    IN  <<[call |-> "generateShareMessage"]>>
        \o (IF channel = "email"
            THEN IF Has(w, "products")
                 THEN <<Mailto(w, <<"Warranty Expiry Reminder">>
                                   \o subjectTarget(w, setHoursZero(clock)), message)>>
                 ELSE <<>>
            ELSE <<triggerWhatsApp(w, message)>>)

(***************************************************************************)
(* WarrantyForm (src/unnamed/part_000).  The location fields (state,       *)
(* district, postcode, building type) are copied like customerName and are *)
(* left out.                                                               *)
(***************************************************************************)
\* lines 21-35
initialFormData ==
    [customerName |-> "", phoneNumber |-> <<>>, email |-> "", products |-> <<>>,
     servicesProvided |-> Services(FALSE, FALSE), installDate |-> <<>>,
     installationWarrantyPeriod |-> 0, installationWarrantyUnit |-> "months"]

\* lines 41-55: the form state made of initialData
seededFormData(initialData) ==
    Bind("customerName", Opt(initialData, "customerName"))
    @@ Bind("phoneNumber", Opt(initialData, "phoneNumber"))
    @@ Bind("email", Opt(initialData, "email"))
    @@ Bind("products", Opt(initialData, "products"))
    @@ [servicesProvided |->
            Nullish(initialData, "servicesProvided",
                    <<Services(FALSE, Truthy(initialData, "installDate"))>>)[1],
        installDate |-> Nullish(initialData, "installDate", <<<<>>>>)[1],
        installationWarrantyPeriod |->
            Nullish(initialData, "installationWarrantyPeriod", <<0>>)[1],
        installationWarrantyUnit |->
            Nullish(initialData, "installationWarrantyUnit", <<"months">>)[1]]

\* the state of the form once mounted with the seed: lines 21-57
mountedFormData(seed) ==
    IF seed = <<>> THEN initialFormData ELSE seededFormData(seed[1])

\* lines 61-70: the new state of handleChange
changedField(prev, name, value) ==
    (name :> IF name = "installationWarrantyPeriod" THEN parseInt(value)[1] ELSE value)
    @@ prev

\* mutant of changedService: unchecking install keeps the installation data
changedService_keepsInstallData(prev, name, checked) ==
    [servicesProvided |-> (name :> checked) @@ prev.servicesProvided] @@ prev

\* lines 75-87: the new state of handleServiceChange
changedService(prev, name, checked) ==
    LET newServices == (name :> checked) @@ prev.servicesProvided
    IN  IF name = "install" /\ ~checked
        THEN [servicesProvided |-> newServices, installDate |-> <<>>,
              installationWarrantyPeriod |-> 0] @@ prev
        ELSE [servicesProvided |-> newServices] @@ prev

\* lines 93-99: the updated product
changedProduct(product, name, value) ==
    (name :> IF name = "productWarrantyPeriod"
             THEN (IF parseInt(value) = <<>> THEN 0 ELSE parseInt(value)[1])
             ELSE value)
    @@ product

\* lines 108-114
emptyProduct == Product("", "", <<>>, 0, "months")

\* lines 106-116: the new state of addProduct
withProductAdded(prev) ==
    [products |-> Append(prev.products, emptyProduct),
     servicesProvided |-> [supply |-> TRUE] @@ prev.servicesProvided] @@ prev

\* lines 120-128: the new state of removeProduct
withProductRemoved(prev, index) ==
    LET newProducts ==
            [j \in 1..(Len(prev.products) - 1) |->
                IF j < index THEN prev.products[j] ELSE prev.products[j + 1]]
    IN  IF Len(newProducts) = 0
        THEN [products |-> newProducts,
              servicesProvided |-> [supply |-> FALSE] @@ prev.servicesProvided] @@ prev
        ELSE [products |-> newProducts] @@ prev

\* the inputs marked required (lines 153-154, 202-205) are filled in, else
\* the browser does not submit the form
requiredFilled(form) ==
    /\ Truthy(form, "customerName")
    /\ Truthy(form, "phoneNumber")
    /\ \A i \in DOMAIN form.products :
          /\ Truthy(form.products[i], "productName")
          /\ Truthy(form.products[i], "serialNumber")
          /\ Truthy(form.products[i], "purchaseDate")

\* lines 133-137: the argument of onPreview
submittedData(form, initialData) ==
    IF initialData # <<>> /\ Has(initialData[1], "id")
    THEN [id |-> initialData[1].id] @@ form
    ELSE form

(***************************************************************************)
(* App (src/App.tsx lines 78-140) and WarrantyList (src/unnamed/part_001). *)
(***************************************************************************)
\* mutant of addWarranty: the id is made of the number of records
addWarranty_counted(prevWarranties, w, t) ==
    Append(prevWarranties, [id |-> toISOString(Len(prevWarranties) + 1)] @@ w)

\* lines 78-81: the new collection; t is the instant new Date() reads
addWarranty(prevWarranties, w, t) ==
    Append(prevWarranties, [id |-> toISOString(t)] @@ w)

\* mutant of updateWarranty: the updated record moves to the end
updateWarranty_moved(prevWarranties, updatedWarranty) ==
    IF \E i \in DOMAIN prevWarranties : prevWarranties[i].id = updatedWarranty.id
    THEN Append(SelectSeq(prevWarranties, LAMBDA w : w.id # updatedWarranty.id),
                updatedWarranty)
    ELSE prevWarranties

\* lines 83-87
updateWarranty(prevWarranties, updatedWarranty) ==
    [i \in DOMAIN prevWarranties |->
        IF prevWarranties[i].id = updatedWarranty.id
        THEN updatedWarranty ELSE prevWarranties[i]]

\* mutant of withoutId: the record and everything after it are removed
withoutId_truncated(prevWarranties, id) ==
    LET first == CHOOSE i \in DOMAIN prevWarranties : prevWarranties[i].id = id
    IN  IF \E i \in DOMAIN prevWarranties : prevWarranties[i].id = id
        THEN SubSeq(prevWarranties, 1, first - 1)
        ELSE prevWarranties

\* line 91: the filter of deleteWarranty
withoutId(prevWarranties, id) == SelectSeq(prevWarranties, LAMBDA w : w.id # id)

\* line 120: 'id' in data && data.id
hasId(data) == Has(data, "id") /\ data.id # <<>>

\* mutant of confirmedStore: the id of the data is not looked at
confirmedStore_alwaysAdds(prevWarranties, data, t) ==
    addWarranty(prevWarranties, data, t)

\* lines 120-124: the new collection
confirmedStore(prevWarranties, data, t) ==
    IF hasId(data) THEN updateWarranty(prevWarranties, data)
    ELSE addWarranty(prevWarranties, data, t)

\* an overlay (the form of part_000 line 144 or the preview of
\* WarrantyPreviewModal.tsx line 38) covers the header and the cards
overlayOpen == isFormOpen \/ previewData # <<>>

NoShare == [email |-> FALSE, whatsapp |-> FALSE]

\* the first instant the clock is read: later than every stored creation
FirstInstant == MaxInitial + 1

\* a handler that calls nothing outside: the record of calls starts anew
noCalls == effects' = <<>> /\ UNCHANGED timers

\* String.prototype.toLowerCase on the texts of the model
toLowerCase(text) ==
    CASE text = "Ali" -> "ali" [] text = "Bo" -> "bo"
      [] text = "Lamp" -> "lamp" [] text = "Fan" -> "fan" [] text = "Pump" -> "pump"
      [] text = "Plug" -> "plug"
      [] text = "SN2" -> "sn2" [] text = "SN4" -> "sn4" [] text = "SN9" -> "sn9"
      [] OTHER -> text

\* String.prototype.includes on lower-case texts of the model: the empty
\* term, the text itself, or a part of it
includes(text, term) ==
    term = "" \/ text = term \/ <<text, term>> \in {<<"ali", "al">>, <<"lamp", "am">>}

\* App.tsx lines 143-156: the array itself without a search term, else a
\* new array of the records with the term in the customer name or in the
\* name or serial number of a product (the location fields are left out)
filteredWarranties(ws, term) ==
    IF term = "" THEN ws
    ELSE SelectSeq(ws, LAMBDA w :
             \/ includes(toLowerCase(OrElse(w, "customerName", <<"">>)[1]), term)
             \/ \E i \in DOMAIN w.products :
                    \/ includes(toLowerCase(OrElse(w.products[i], "productName",
                                                    <<"">>)[1]), term)
                    \/ includes(toLowerCase(OrElse(w.products[i], "serialNumber",
                                                    <<"">>)[1]), term))

\* the state after App has rendered again: WarrantyList sorts the array it
\* is given, which is the state itself only while nothing is searched
afterRender(ws) == IF searchTerm = "" THEN listSort(ws) ELSE ws

\* Header, "Add" button
handleAddNew ==
    /\ mounted /\ ~overlayOpen
    /\ formSeedData' = <<>>
    /\ isFormOpen' = TRUE
    /\ formData' = <<mountedFormData(<<>>)>>
    /\ warranties' = afterRender(warranties)
    /\ UNCHANGED <<previewData, shareOptions, instant, loaded, mounted>>
    /\ noCalls
    /\ UNCHANGED <<statusVars, fnVars, searchTerm>>

\* WarrantyCard, "Edit" button of the i-th card
handleEdit(i) ==
    /\ mounted /\ ~overlayOpen
    /\ warranties[i] \in Range(filteredWarranties(warranties, searchTerm))
    /\ formSeedData' = <<warranties[i]>>
    /\ isFormOpen' = TRUE
    /\ formData' = <<mountedFormData(<<warranties[i]>>)>>
    /\ warranties' = afterRender(warranties)
    /\ UNCHANGED <<previewData, shareOptions, instant, loaded, mounted>>
    /\ noCalls
    /\ UNCHANGED <<statusVars, fnVars, searchTerm>>

\* WarrantyForm, "Cancel" button or a click on the overlay
handleCloseForm ==
    /\ isFormOpen
    /\ isFormOpen' = FALSE
    /\ formSeedData' = <<>>
    /\ formData' = <<>>
    /\ warranties' = afterRender(warranties)
    /\ UNCHANGED <<previewData, shareOptions, instant, loaded, mounted>>
    /\ noCalls
    /\ UNCHANGED <<statusVars, fnVars, searchTerm>>

\* what the form's own handlers leave alone
formFrame ==
    /\ UNCHANGED <<formSeedData, isFormOpen, previewData, shareOptions, instant>>
    /\ noCalls
    /\ UNCHANGED <<statusVars, appVars, fnVars, searchTerm>>

\* the installation inputs are rendered only with install checked (line 255)
fieldRendered(form, name) ==
    name \in {"installDate", "installationWarrantyPeriod", "installationWarrantyUnit"}
        => form.servicesProvided.install

handleChange(name, value) ==
    /\ isFormOpen
    /\ fieldRendered(formData[1], name)
    /\ formData' = <<changedField(formData[1], name, value)>>
    /\ formFrame

\* the supply box is disabled (line 237): only install can be clicked
handleServiceChange(name) ==
    /\ isFormOpen
    /\ name = "install"
    /\ formData' = <<changedService(formData[1], name,
                                    ~formData[1].servicesProvided[name])>>
    /\ formFrame

handleProductChange(index, name, value) ==
    /\ isFormOpen
    /\ index \in DOMAIN formData[1].products
    /\ formData' =
          <<[products |->
                [formData[1].products EXCEPT
                    ![index] = changedProduct(formData[1].products[index], name, value)]]
            @@ formData[1]>>
    /\ formFrame

addProduct ==
    /\ isFormOpen
    /\ Len(formData[1].products) < MaxFormProducts
    /\ formData' = <<withProductAdded(formData[1])>>
    /\ formFrame

removeProduct(index) ==
    /\ isFormOpen
    /\ index \in DOMAIN formData[1].products
    /\ formData' = <<withProductRemoved(formData[1], index)>>
    /\ formFrame

\* the form is submitted: handleSubmit, and through onPreview and onClose
\* App's handlePreview (lines 110-114) and handleCloseForm
handleSubmit ==
    /\ isFormOpen
    /\ requiredFilled(formData[1])
    /\ previewData' = <<submittedData(formData[1], formSeedData)>>
    /\ shareOptions' = <<NoShare>>
    /\ isFormOpen' = FALSE
    /\ formSeedData' = <<>>
    /\ formData' = <<>>
    /\ warranties' = afterRender(warranties)
    /\ UNCHANGED <<instant, loaded, mounted>>
    /\ noCalls
    /\ UNCHANGED <<statusVars, fnVars, searchTerm>>

\* WarrantyPreviewModal lines 32-35: one of the two share boxes is clicked
handleShareChange(name) ==
    /\ previewData # <<>>
    /\ shareOptions' = <<[shareOptions[1] EXCEPT ![name] = ~shareOptions[1][name]]>>
    /\ UNCHANGED <<formSeedData, isFormOpen, formData, previewData, instant>>
    /\ noCalls
    /\ UNCHANGED <<statusVars, appVars, fnVars, searchTerm>>

\* "Confirm & Save": lines 116-129 with addWarranty or updateWarranty and
\* triggerShare.  A creation reads the clock, and the next creation, which
\* needs a new submission first, reads a later instant.
handlePreviewConfirm ==
    /\ previewData # <<>>
    /\ LET data == previewData[1]
           calls == <<SetWarranties>> \o triggerShare(data, shareOptions[1], now)
       IN  /\ hasId(data) \/ instant < FirstInstant + MaxCreated
           /\ Len(timers) + Len(Scheduled(calls)) <= MaxTimers
           /\ warranties' = afterRender(confirmedStore(warranties, data, instant))
           /\ instant' = IF hasId(data) THEN instant ELSE instant + 1
           /\ effects' = calls
           /\ timers' = timers \o Scheduled(calls)
    /\ previewData' = <<>>
    /\ shareOptions' = <<>>
    /\ UNCHANGED <<formSeedData, isFormOpen, formData, loaded, mounted>>
    /\ UNCHANGED <<statusVars, fnVars, searchTerm>>

\* WarrantyPreviewModal, "Edit" button
handlePreviewEdit ==
    /\ previewData # <<>>
    /\ formSeedData' = previewData
    /\ previewData' = <<>>
    /\ shareOptions' = <<>>
    /\ isFormOpen' = TRUE
    /\ formData' = <<mountedFormData(previewData)>>
    /\ warranties' = afterRender(warranties)
    /\ UNCHANGED <<instant, loaded, mounted>>
    /\ noCalls
    /\ UNCHANGED <<statusVars, fnVars, searchTerm>>

\* WarrantyPreviewModal, the close button or a click on the overlay
handlePreviewClose ==
    /\ previewData # <<>>
    /\ previewData' = <<>>
    /\ shareOptions' = <<>>
    /\ warranties' = afterRender(warranties)
    /\ UNCHANGED <<formSeedData, isFormOpen, formData, instant, loaded, mounted>>
    /\ noCalls
    /\ UNCHANGED <<statusVars, fnVars, searchTerm>>

WindowConfirm(id, answer) == [call |-> "window.confirm", id |-> id, answer |-> answer]

\* WarrantyCard, "Delete" button of the i-th card; answer is what the user
\* replies to window.confirm
deleteWarranty(i, answer) ==
    /\ mounted /\ ~overlayOpen
    /\ warranties[i] \in Range(filteredWarranties(warranties, searchTerm))
    /\ effects' = <<WindowConfirm(warranties[i].id, answer)>>
                   \o (IF answer THEN <<SetWarranties>> ELSE <<>>)
    /\ warranties' = IF answer
                     THEN afterRender(withoutId(warranties, warranties[i].id))
                     ELSE warranties
    /\ UNCHANGED <<loaded, mounted, timers>>
    /\ UNCHANGED <<statusVars, uiVars, fnVars, searchTerm>>

\* the delay of the oldest scheduled callback has passed: it runs
TimerFires ==
    /\ timers # <<>>
    /\ effects' = Append(effects, Head(timers).run)
    /\ timers' = Tail(timers)
    /\ UNCHANGED <<statusVars, appVars, uiVars, fnVars, searchTerm>>

(***************************************************************************)
(* The record workflow: the application is loaded over a few stored        *)
(* records; records are created, edited and deleted through the form and   *)
(* the preview.  The form is filled with a name and a phone number only    *)
(* and no share box is ticked.                                             *)
(***************************************************************************)
InitWorkflow0 ==
    /\ loaded = <<>>
    /\ mounted = FALSE
    /\ InitStatus0
    /\ formSeedData = <<>> /\ isFormOpen = FALSE /\ formData = <<>>
    /\ previewData = <<>> /\ shareOptions = <<>>
    /\ instant = FirstInstant
    /\ timers = <<>> /\ effects = <<>>
    /\ argument = <<>> /\ result = <<>>
    /\ searchTerm = ""

InitUI ==
    /\ warranties \in { WithIds(s) : s \in SeqsUpTo(CompanionPool, MaxInitial) }
    /\ InitWorkflow0

NameInputs ==
    { <<"customerName", "Bo">>, <<"phoneNumber", <<"0", "1", "9">>>> }

NextUI ==
    \/ Mount
    \/ handleAddNew
    \/ \E i \in DOMAIN warranties : handleEdit(i)
    \/ handleCloseForm
    \/ \E input \in NameInputs : handleChange(input[1], input[2])
    \/ handleSubmit
    \/ handlePreviewConfirm
    \/ handlePreviewEdit
    \/ handlePreviewClose
    \/ \E i \in DOMAIN warranties, answer \in BOOLEAN : deleteWarranty(i, answer)

SpecUI == InitUI /\ [][NextUI]_vars

(***************************************************************************)
(* Sharing: stored records are edited, previewed and confirmed with the    *)
(* share boxes ticked in every way; the scheduled callbacks run whenever   *)
(* the browser gets to them.                                               *)
(***************************************************************************)
NextShare ==
    \/ Mount
    \/ \E i \in DOMAIN warranties : handleEdit(i)
    \/ handleCloseForm
    \/ handleSubmit
    \/ \E name \in {"email", "whatsapp"} : handleShareChange(name)
    \/ handlePreviewConfirm
    \/ handlePreviewEdit
    \/ handlePreviewClose
    \/ TimerFires

SpecShare == InitUI /\ [][NextShare]_vars /\ WF_vars(TimerFires)

(***************************************************************************)
(* The form on its own: the application is loaded over one stored record   *)
(* (or none) and the form is opened, filled and submitted; the preview is  *)
(* closed without being confirmed or edited.                               *)
(***************************************************************************)
FormSeedPool ==
    CompanionPool
    \cup { Customer @@ [productName |-> "Fan", purchaseDate |-> <<2023, 6, 1>>,
                        productWarrantyPeriod |-> 2, productWarrantyUnit |-> "years"]
               @@ Installation(<<2024, 2, 1>>, 1, "months"),
           Customer @@ [products |-> <<Product("Lamp", "SN2", <<2024, 1, 31>>, 1, "weeks")>>]
               @@ [servicesProvided |-> Services(FALSE, TRUE)]
               @@ Installation(<<2024, 2, 1>>, 1, "months") }

InitForm ==
    /\ warranties \in { WithIds(s) : s \in SeqsUpTo(FormSeedPool, 1) }
    /\ InitWorkflow0

FieldInputs ==
    NameInputs
    \cup { <<"installDate", <<2024, 2, 20>>>>,
           <<"installationWarrantyPeriod", <<"2">>>> }

ProductInputs ==
    { <<"productName", "Fan">>, <<"serialNumber", "SN1">>,
      <<"purchaseDate", <<2024, 1, 31>>>>, <<"productWarrantyPeriod", <<"1">>>>,
      <<"productWarrantyPeriod", <<>>>> }

NextForm ==
    \/ Mount
    \/ handleAddNew
    \/ \E i \in DOMAIN warranties : handleEdit(i)
    \/ handleCloseForm
    \/ \E input \in FieldInputs : handleChange(input[1], input[2])
    \/ \E name \in {"supply", "install"} : handleServiceChange(name)
    \/ \E index \in 1..MaxFormProducts, input \in ProductInputs :
          handleProductChange(index, input[1], input[2])
    \/ addProduct
    \/ \E index \in 1..MaxFormProducts : removeProduct(index)
    \/ handleSubmit
    \/ handlePreviewClose

SpecForm == InitForm /\ [][NextForm]_vars

(***************************************************************************)
(* Claims on the record workflow.                                          *)
(***************************************************************************)
IdsOf(ws) == [i \in DOMAIN ws |-> Opt(ws[i], "id")]

PreviewId == IF previewData = <<>> THEN <<>> ELSE Opt(previewData[1], "id")

SeedId == IF formSeedData = <<>> THEN <<>> ELSE Opt(formSeedData[1], "id")

\* C11: no two records of the store have the same id, whatever new-record
\* confirmations, edit confirmations and deletions took place (each new id
\* being the creation timestamp).
C11_IdsUnique ==
    \A i, j \in DOMAIN warranties :
        Opt(warranties[i], "id") = Opt(warranties[j], "id") => i = j

\* the first created record was deleted, a second one was created after it
\* and a record of the first load was edited
C11_Witness ==
    /\ mounted
    /\ \E i \in DOMAIN warranties : warranties[i].id = toISOString(FirstInstant + 1)
    /\ \A i \in DOMAIN warranties : warranties[i].id # toISOString(FirstInstant)
    /\ \E i \in DOMAIN warranties :
          /\ warranties[i].id = toISOString(1)
          /\ warranties[i].customerName = "Bo"

\* C12: an id never changes once assigned.  The id of the edited record is
\* carried from the card to the form, to the preview and back to the form;
\* confirming a preview that has an id replaces the record of that id in
\* place (same position, same length, the other records unchanged, no id
\* generated); only a preview without an id creates a record, appended at
\* the end under a fresh id.
C12_IdKeptThroughEdit ==
    [][/\ (\E i \in DOMAIN warranties : handleEdit(i)) =>
              SeedId' # <<>> /\ SeedId' \in Range(IdsOf(warranties))
       /\ handleSubmit => PreviewId' = SeedId
       /\ handlePreviewEdit => SeedId' = PreviewId
       /\ (handlePreviewConfirm /\ PreviewId # <<>>) =>
              /\ Len(warranties') = Len(warranties)
              /\ IdsOf(warranties') = IdsOf(warranties)
              /\ instant' = instant
              /\ \A i \in DOMAIN warranties :
                    IF i \in DOMAIN warranties' /\ Opt(warranties[i], "id") = PreviewId
                    THEN warranties'[i] = previewData[1]
                    ELSE i \in DOMAIN warranties' /\ warranties'[i] = warranties[i]
       /\ (handlePreviewConfirm /\ PreviewId = <<>>) =>
              /\ Len(warranties') = Len(warranties) + 1
              /\ SubSeq(warranties', 1, Len(warranties)) = warranties
              /\ Opt(warranties'[Len(warranties')], "id") \notin Range(IdsOf(warranties))
              /\ Without(warranties'[Len(warranties')], {"id"}) = previewData[1]
      ]_vars

\* the first of two stored records was edited, previewed, edited again and
\* confirmed: it is still first, under its id, with the new name, and the
\* second record is as it was loaded
C12_Witness ==
    /\ mounted
    /\ Len(warranties) = 2
    /\ Len(LastLoaded) = 2
    /\ warranties[1].id = toISOString(1)
    /\ warranties[1].customerName = "Bo"
    /\ warranties[1].phoneNumber = <<"0", "1", "9">>
    /\ warranties[2] = migrateWarranty(LastLoaded[2])
    /\ previewData = <<>> /\ ~isFormOpen

\* the records of ws whose id is not id, in their order
RECURSIVE Others(_, _)
Others(ws, id) ==
    IF ws = <<>> THEN <<>>
    ELSE (IF Opt(Head(ws), "id") = id THEN <<>> ELSE <<Head(ws)>>)
         \o Others(Tail(ws), id)

\* C13: deleting changes the store only when the user confirms the prompt:
\* then exactly the records of that id are removed and the others keep their
\* content and relative order; when the user declines the store is unchanged.
C13_DeleteOnlyOnConfirm ==
    [][\A i \in DOMAIN warranties, answer \in BOOLEAN :
          deleteWarranty(i, answer) =>
              warranties' = IF answer
                            THEN Others(warranties, Opt(warranties[i], "id"))
                            ELSE warranties
      ]_vars

\* the user confirmed the deletion of the first of two records: the second
\* one is what is left
C13_Witness ==
    /\ mounted
    /\ Len(LastLoaded) = 2
    /\ effects = <<WindowConfirm(toISOString(1), TRUE), SetWarranties>>
    /\ warranties = <<migrateWarranty(LastLoaded[2])>>

(***************************************************************************)
(* Claims on the form.                                                     *)
(***************************************************************************)
\* C14 as stated: every warranty the form submits, whether it was seeded
\* with nothing or with a stored, migrated record and whatever products were
\* added or removed and fields changed since, has supply set when it has a
\* product.
C14_ProductsImplySupply ==
    previewData # <<>> =>
        (Len(previewData[1].products) > 0 => previewData[1].servicesProvided.supply)

(***************************************************************************)
(* Claims on sharing.  The browser runs a scheduled callback once its      *)
(* delay has passed: TimerFires is weakly fair.                            *)
(***************************************************************************)
CallNames(calls) == [i \in DOMAIN calls |-> calls[i].call]

Opens(calls) == Len(SelectSeq(calls, LAMBDA c : c.call = "window.open"))

\* C15: with both channels requested the confirmation navigates to the
\* mailto link first and leaves the WhatsApp window to a callback scheduled
\* after the fixed delay, behind the callbacks already waiting, and each
\* waiting callback is run in its turn, once; with WhatsApp alone the
\* window is opened within the call; with e-mail alone no window is opened
\* then or later; with neither channel nothing but the store is called and
\* no message is composed.
C15_EmailThenWhatsApp ==
    /\ [][handlePreviewConfirm =>
            LET options == shareOptions[1]
                both == options.email /\ options.whatsapp
                made == CallNames(effects')
            IN  /\ made = <<"setWarranties">>
                          \o (IF both
                              THEN <<"generateShareMessage", "location.href", "setTimeout">>
                              ELSE IF options.whatsapp
                              THEN <<"generateShareMessage", "window.open">>
                              ELSE IF options.email
                              THEN <<"generateShareMessage", "location.href">>
                              ELSE <<>>)
                /\ timers' = IF both THEN Append(timers, effects'[4]) ELSE timers
                /\ both =>
                      /\ effects'[4].delay = ShareDelay /\ ShareDelay > 0
                      /\ effects'[4].run.call = "window.open"
                      /\ effects'[4].run.text = effects'[3].body
          ]_vars
    /\ [][TimerFires =>
            /\ timers' = Tail(timers)
            /\ Opens(effects') = Opens(effects) + 1
            /\ effects'[Len(effects')] = timers[1].run
          ]_vars
    /\ [][(timers' # timers \/ Opens(effects') > Opens(effects)) =>
            (handlePreviewConfirm \/ TimerFires)]_vars
    /\ []<>(timers = <<>>) \/ []<><<TimerFires>>_vars

\* both channels were requested: the mailto navigation, then the callback
\* scheduled, then, after the handler returned, the WhatsApp window
C15_Witness ==
    /\ CallNames(effects) =
          <<"setWarranties", "generateShareMessage", "location.href", "setTimeout",
            "window.open">>
    /\ effects[5] = effects[4].run
    /\ effects[5].to = <<"6", "0", "1", "2", "3", "4", "5", "6", "7", "8", "9">>
    /\ timers = <<>>
    /\ previewData = <<>>

(***************************************************************************)
(* The utilities applied to arguments of their own: every variable of the  *)
(* application is at rest, argument holds the input and result the value   *)
(* returned, <<v>>, once the function was called.                          *)
(***************************************************************************)
InitAtRest ==
    /\ InitApp0
    /\ InitStatus0
    /\ formSeedData = <<>> /\ isFormOpen = FALSE /\ formData = <<>>
    /\ previewData = <<>> /\ shareOptions = <<>>
    /\ instant = 0
    /\ timers = <<>> /\ effects = <<>>
    /\ searchTerm = ""

MaxPhoneLen == 3

PhoneExamples ==
    { <<"0", "1", "2", "-", "3", "4", "5", "6", "7", "8", "9">>,
      <<"6", "0", "1", "2", "3", "4", "5", "6", "7", "8", "9">>,
      <<"1", "2", "3", "4", "5", "6", "7", "8", "9">> }

\* the short texts are made of the trunk digit, the digits of the country
\* code, another digit and a separator
InitPhone ==
    /\ InitAtRest
    /\ argument \in SeqsUpTo({"0", "6", "1", "-"}, MaxPhoneLen) \cup PhoneExamples
    /\ result = <<>>

FormatPhone ==
    /\ result = <<>>
    /\ result' = <<formatPhoneNumberForWhatsApp(argument)>>
    /\ UNCHANGED <<statusVars, appVars, uiVars, ioVars, argument, searchTerm>>

SpecPhone == InitPhone /\ [][FormatPhone]_vars

(***************************************************************************)
(* Claims on the WhatsApp number                                           *)
(***************************************************************************)
Digits(phone) == SelectSeq(phone, LAMBDA c : c \in {"0", "1", "2", "3", "4", "5", "6", "7", "8", "9"})

\* the number the three steps give: the digits alone; "6" before a leading
\* "0"; "60" before what does not begin with "60"
Normalized(phone) ==
    LET digits == Digits(phone)
    IN  IF Len(digits) >= 2 /\ digits[1] = "6" /\ digits[2] = "0" THEN digits
        ELSE IF Len(digits) >= 1 /\ digits[1] = "0" THEN <<"6">> \o digits
        ELSE <<"6", "0">> \o digits

\* C16 as stated: every phone text, the empty one included, is normalized by
\* the three steps
C16_EveryPhoneNormalized ==
    result # <<>> => result[1] = Normalized(argument)

\* C16: the empty phone text is returned as it is; any other text is
\* stripped of its non-digits, a leading 0 becomes 60, and 60 is put before
\* a number that does not begin with 60; 012-3456789 gives 60123456789,
\* 60123456789 is unchanged and 123456789 gives 60123456789.
C16_PhoneNormalized ==
    result # <<>> =>
        /\ result[1] = IF argument = <<>> THEN <<>> ELSE Normalized(argument)
        /\ argument \in PhoneExamples =>
              result[1] = <<"6", "0", "1", "2", "3", "4", "5", "6", "7", "8", "9">>

\* the number was typed with its trunk digit and a separator
C16_Witness ==
    /\ argument = <<"0", "1", "2", "-", "3", "4", "5", "6", "7", "8", "9">>
    /\ result = << <<"6", "0", "1", "2", "3", "4", "5", "6", "7", "8", "9">> >>

(***************************************************************************)
(* The reminder composer applied to one record at one instant of the       *)
(* horizon.                                                                *)
(***************************************************************************)
InitReminder ==
    /\ warranty \in WarrantyPool
    /\ now \in {24 * (FirstDay + d) + h : d \in 0..HorizonDays, h \in ClockHours}
    /\ info = NoInfo
    /\ InitApp0
    /\ InitShell0

Compose ==
    /\ result = <<>>
    /\ result' = <<generateShareMessage(warranty, TRUE, now)>>
    /\ UNCHANGED <<statusVars, appVars, uiVars, ioVars, argument, searchTerm>>

SpecReminder == InitReminder /\ [][Compose]_vars

(***************************************************************************)
(* Claims on the reminder message                                          *)
(***************************************************************************)
\* a product with a period whose expiry falls today or later
StillCovered(p) ==
    /\ p.productWarrantyPeriod > 0
    /\ Parseable(p, "purchaseDate")
    /\ DayOf(calculateExpiryDate(<<p.purchaseDate>>, p.productWarrantyPeriod,
                                 p.productWarrantyUnit)[1]) >= Today

\* an installation provided, dated and with a period, whose expiry falls
\* today or later
InstallStillCovered ==
    /\ InstallQualifies(warranty)
    /\ \A e \in CollectedInstall(warranty) : DayOf(e) >= Today

IsFallback(message) ==
    message = << <<"Hi", warranty.customerName>>,
                 <<"This is a friendly reminder regarding your warranties. Please review your records for items that may be expiring soon.">>,
                 <<"Thank you!">> >>

LinesOf(message, text) == SelectSeq(message, LAMBDA line : line[1] = text)

\* C17: a reminder is never empty, and it is the generic fallback text
\* exactly when the record has no product with a period that expires today
\* or later and no provided installation that expires today or later.
C17_FallbackIffNothingCovered ==
    result # <<>> =>
        /\ result[1] # <<>>
        /\ IsFallback(result[1]) <=>
              /\ \A i \in DOMAIN ProductsOf(warranty) :
                    ~StillCovered(ProductsOf(warranty)[i])
              /\ ~InstallStillCovered

\* one product, expired, and no installation: the fallback text
C17_Witness ==
    /\ result # <<>> /\ IsFallback(result[1])
    /\ Has(warranty, "products") /\ Len(warranty.products) = 1
    /\ warranty.products[1].productName = "Lamp"
    /\ Today > MakeDay(2024, 1, 14)
    /\ ~Truthy(warranty, "installDate")

\* C18: the reminder itemizes exactly the products with a period whose
\* expiry is today or later, in the order of the record, and it has the
\* installation section exactly when the installation is provided and its
\* expiry is today or later.
C18_OnlyCoveredItemized ==
    result # <<>> =>
        LET items == LinesOf(result[1], "Item")
            covered == SelectSeq(ProductsOf(warranty), StillCovered)
        IN  /\ [i \in DOMAIN items |-> items[i][2]]
               = [i \in DOMAIN covered |-> covered[i].productName]
            /\ Len(LinesOf(result[1], "Expires on")) = Len(covered)
            /\ Len(LinesOf(result[1], "Service Type: Installation")) =
                  (IF InstallStillCovered THEN 1 ELSE 0)

\* the lamp expired on 14 February and is left out, the fan is itemized
C18_Witness ==
    /\ result # <<>>
    /\ Has(warranty, "products") /\ Len(warranty.products) = 2
    /\ warranty.products[1].productName = "Lamp"
    /\ warranty.products[2].productName = "Fan"
    /\ Today = MakeDay(2024, 1, 20)
    /\ LinesOf(result[1], "Item") = <<<<"Item", "Fan">>>>

(***************************************************************************)
(* The reminder buttons of a rendered record.  WarrantyCard shows its      *)
(* notify menu while the status is Expiring Soon (line 92); the buttons of *)
(* WarrantyDetailModal are disabled while the status is Expired (lines     *)
(* 124, 127).  Both components classify the record when they render;       *)
(* whether the menu or the modal is open is not modelled.                  *)
(***************************************************************************)
WarrantyCard_handleNotify(channel) ==
    /\ info # NoInfo
    /\ info.status = "Expiring Soon"
    /\ effects' = handleNotifyCalls(warranty, channel, now)
    /\ UNCHANGED <<statusVars, appVars, uiVars, timers, fnVars, searchTerm>>

WarrantyDetailModal_handleNotify(channel) ==
    /\ info # NoInfo
    /\ info.status # "Expired"
    /\ effects' = handleNotifyCalls(warranty, channel, now)
    /\ UNCHANGED <<statusVars, appVars, uiVars, timers, fnVars, searchTerm>>

NextNotify ==
    \/ Render
    \/ \E channel \in {"email", "whatsapp"} : WarrantyCard_handleNotify(channel)
    \/ \E channel \in {"email", "whatsapp"} : WarrantyDetailModal_handleNotify(channel)

SpecNotify == InitReminder /\ [][NextNotify]_vars

(***************************************************************************)
(* Claims on the reminder subject                                          *)
(***************************************************************************)
\* the target the subject should name: the first covered product, else the
\* installation if it is provided and covered, else the generic label
ExpectedTarget ==
    LET covered == SelectSeq(ProductsOf(warranty), StillCovered)
    IN  IF covered # <<>> THEN covered[1].productName
        ELSE IF InstallStillCovered THEN "Installation Service"
        ELSE "Your Product/Service"

\* C19: the subject of a reminder e-mail names the first product with a
\* period that expires today or later, else the installation if it is
\* provided, dated, with a period and expires today or later, else the
\* generic label; it names the installation only above a body with the
\* installation section, and the generic label only above the fallback text.
\* Stated for a record as the migration leaves it, with servicesProvided.
C19_SubjectMatchesBody ==
    \A i \in DOMAIN effects :
        (effects[i].call = "location.href" /\ Has(warranty, "servicesProvided")) =>
            /\ effects[i].subject = <<"Warranty Expiry Reminder", ExpectedTarget>>
            /\ effects[i].subject[2] = "Installation Service" =>
                  Len(LinesOf(effects[i].body, "Service Type: Installation")) = 1
            /\ effects[i].subject[2] = "Your Product/Service" =>
                  IsFallback(effects[i].body)

(***************************************************************************)
(* calculateExpiryDate applied to a start date, a period and a unit        *)
(***************************************************************************)
MaxPeriod == 4

\* the start dates are days of the calendar, the empty text and a text that
\* is no date; the unit may be one the switch does not know; the example of
\* twelve months is added to the grid
InitExpiry ==
    /\ InitAtRest
    /\ argument \in
          [startDate : {date \in {<<y, m, d>> : y \in {2020, 2023}, m \in {1, 2, 12},
                                               d \in {1, 28, 29, 31}} :
                           date[3] <= DaysInMonth(date[1], date[2])}
                       \cup {<<>>, NotADate},
           period : 0..MaxPeriod,
           unit : {"days", "weeks", "months", "years", ""}]
          \cup {[startDate |-> <<2024, 1, 15>>, period |-> 12, unit |-> "months"]}
    /\ result = <<>>

CalculateExpiry ==
    /\ result = <<>>
    /\ result' = <<calculateExpiryDate(<<argument.startDate>>, argument.period,
                                       argument.unit)>>
    /\ UNCHANGED <<statusVars, appVars, uiVars, ioVars, argument, searchTerm>>

SpecExpiry == InitExpiry /\ [][CalculateExpiry]_vars

(***************************************************************************)
(* Claims on the expiry arithmetic                                         *)
(***************************************************************************)
\* the inverse operation on a Date: the same setter with the period taken off
Subtracted(date, period, unit) ==
    CASE unit = "days" -> setDate(date, getDate(date) - period)
      [] unit = "weeks" -> setDate(date, getDate(date) - (period * 7))
      [] unit = "years" -> setFullYear(date, getFullYear(date) - period)

\* an expiry was computed from a valid date in days, weeks or years
RoundTripCase ==
    /\ result # <<>> /\ result[1] # <<>>
    /\ argument.unit \in {"days", "weeks", "years"}

LeapYear(y) == (y % 4 = 0 /\ y % 100 # 0) \/ y % 400 = 0

\* 29 February moved by a number of years to a year without one
LeapDayLost ==
    /\ argument.unit = "years"
    /\ argument.startDate[2] = 2 /\ argument.startDate[3] = 29
    /\ ~LeapYear(argument.startDate[1] + argument.period)

\* C20 as stated: adding a period in days, weeks or years and taking the
\* same period off gives the start date back, 29 February included
C20_RoundTripAlways ==
    RoundTripCase =>
        Subtracted(result[1][1], argument.period, argument.unit)
            = NewDate(argument.startDate)[1]

\* C20: adding a period in days or weeks and taking the same period off
\* gives the start date back; so it does in years, except from 29 February
\* to a year that is not a leap year, where 1 March of the start year comes
\* back.
C20_RoundTripButLeapDay ==
    RoundTripCase =>
        Subtracted(result[1][1], argument.period, argument.unit)
            = IF LeapDayLost
              THEN NewDate(<<argument.startDate[1], 3, 1>>)[1]
              ELSE NewDate(argument.startDate)[1]

\* 29 February 2020 and four years: 29 February 2024
C20_Witness ==
    /\ argument = [startDate |-> <<2020, 2, 29>>, period |-> 4, unit |-> "years"]
    /\ result = <<NewDate(<<2024, 2, 29>>)>>

\* the number of days of month m (1..12) of year y
MonthLength(y, m) ==
    IF m = 2 THEN (IF LeapYear(y) THEN 29 ELSE 28)
    ELSE IF m \in {4, 6, 9, 11} THEN 30 ELSE 31

\* the date p months after <<y, m, d>>, on the last day of the target month
\* when that month has no day d
MonthsLater(date, p) ==
    LET y == date[1] + ((date[2] - 1 + p) \div 12)
        m == ((date[2] - 1 + p) % 12) + 1
    IN  <<y, m, IF date[3] > MonthLength(y, m) THEN MonthLength(y, m) ELSE date[3]>>

\* C21: a period in months added to a valid date gives the same day of the
\* target month, or the last day of the target month when it has no such
\* day: 31 January and one month give the last day of February.
C21_MonthsEndOnLastDay ==
    (result # <<>> /\ result[1] # <<>> /\ argument.unit = "months") =>
        result[1] = NewDate(MonthsLater(argument.startDate, argument.period))

\* a start date that is given and is a day of the calendar
StartParses ==
    /\ Len(argument.startDate) = 3
    /\ argument.startDate[2] \in 1..12
    /\ argument.startDate[3] \in 1..MonthLength(argument.startDate[1], argument.startDate[2])

InitFormat ==
    /\ InitAtRest
    /\ argument \in
          {[input |-> <<date>>] :
               date \in {<<y, m, d>> : y \in {999, 2024, 9000, 9001, 9999},
                                       m \in {1, 12}, d \in {5, 31}}
                        \cup {<<>>, NotADate}}
          \cup {[input |-> <<>>]}
          \cup [startDate : {<<2020, 2, 29>>, <<2024, 1, 31>>, <<8999, 12, 31>>,
                             <<>>, NotADate},
                period : 0..MaxPeriod,
                unit : {"days", "weeks", "months", "years", ""}]
    /\ result = <<>>

FormatDate ==
    /\ result = <<>>
    /\ result' = <<IF Has(argument, "input")
                   THEN formatDateText(argument.input)
                   ELSE formatDate(calculateExpiryDate(<<argument.startDate>>,
                                       argument.period, argument.unit))>>
    /\ UNCHANGED <<statusVars, appVars, uiVars, ioVars, argument, searchTerm>>

SpecFormat == InitFormat /\ [][FormatDate]_vars

(***************************************************************************)
(* Claims on the formatted date                                            *)
(***************************************************************************)
\* n written with exactly width digits
RECURSIVE Numeral(_, _)
Numeral(n, width) ==
    IF width = 0 THEN <<>>
    ELSE Append(Numeral(n \div 10, width - 1),
                CASE n % 10 = 0 -> "0" [] n % 10 = 1 -> "1" [] n % 10 = 2 -> "2"
                  [] n % 10 = 3 -> "3" [] n % 10 = 4 -> "4" [] n % 10 = 5 -> "5"
                  [] n % 10 = 6 -> "6" [] n % 10 = 7 -> "7" [] n % 10 = 8 -> "8"
                  [] OTHER -> "9")

\* the number of digits of a year up to 9999
YearWidth(y) == IF y < 10 THEN 1 ELSE IF y < 100 THEN 2 ELSE IF y < 1000 THEN 3 ELSE 4

\* the input is a text that is a day of the calendar
TextParses ==
    /\ Has(argument, "input") /\ argument.input # <<>>
    /\ Len(argument.input[1]) = 3
    /\ argument.input[1][2] \in 1..12
    /\ argument.input[1][3] \in 1..MonthLength(argument.input[1][1], argument.input[1][2])

\* the input is undefined, the empty text or the null of calculateExpiryDate
InputAbsent ==
    IF Has(argument, "input")
    THEN argument.input = <<>> \/ argument.input[1] = <<>>
    ELSE ~(/\ Len(argument.startDate) = 3
           /\ argument.startDate[2] \in 1..12
           /\ argument.startDate[3]
                  \in 1..MonthLength(argument.startDate[1], argument.startDate[2]))

\* a text of two digits, a slash, two digits, a slash and yearWidth digits
DayMonthYear(text, yearWidth) ==
    /\ Len(text) = 6 + yearWidth
    /\ \A i \in DOMAIN text :
          IF i \in {3, 6} THEN text[i] = "/"
          ELSE text[i] \in {"0", "1", "2", "3", "4", "5", "6", "7", "8", "9"}

\* the cases of the forms, but for the width of the year
FormsButYear ==
    /\ result[1] = <<"N/A">> <=> InputAbsent
    /\ result[1] = <<"Invalid Date">> <=> (~InputAbsent /\ Has(argument, "input") /\ ~TextParses)
    /\ TextParses =>
          (result[1] = <<"Does not expire">> <=> argument.input[1][1] > 9000)
    /\ argument = [input |-> <<<<9999, 12, 31>>>>] => result[1] = <<"Does not expire">>

\* C23 as stated: the result is N/A for an absent input, Invalid Date for a
\* text that is no date, Does not expire for a year above 9000 and otherwise
\* the ten characters DD/MM/YYYY, zero-padded
C23_AlwaysTenCharacters ==
    result # <<>> =>
        /\ FormsButYear
        /\ result[1] \notin {<<"N/A">>, <<"Invalid Date">>, <<"Does not expire">>} =>
              /\ DayMonthYear(result[1], 4)
              /\ TextParses =>
                    LET date == argument.input[1]
                    IN  result[1] = Numeral(date[3], 2) \o <<"/">> \o Numeral(date[2], 2)
                                    \o <<"/">> \o Numeral(date[1], 4)

\* C23: the result is N/A for an absent input (the null of
\* calculateExpiryDate included), Invalid Date for a text that is no date,
\* Does not expire for a year above 9000 (the sentinel 9999-12-31 included)
\* and otherwise the day and the month in two digits and the year in its own
\* digits, four from the year 1000 on and fewer before; the expiry of a valid
\* date is always formatted in one of these forms.
C23_FourForms ==
    result # <<>> =>
        /\ FormsButYear
        /\ result[1] \notin {<<"N/A">>, <<"Invalid Date">>, <<"Does not expire">>} =>
              /\ \E width \in 1..4 : DayMonthYear(result[1], width)
              /\ TextParses =>
                    LET date == argument.input[1]
                    IN  result[1] = Numeral(date[3], 2) \o <<"/">> \o Numeral(date[2], 2)
                                    \o <<"/">> \o Numeral(date[1], YearWidth(date[1]))
              /\ ~Has(argument, "input") => DayMonthYear(result[1], 4)

\* 5 January 2024 is written with both zeros
C23_Witness ==
    /\ argument = [input |-> <<<<2024, 1, 5>>>>]
    /\ result = << <<"0", "5", "/", "0", "1", "/", "2", "0", "2", "4">> >>

(***************************************************************************)
(* The first load of collections of one or two records that the list can   *)
(* render (each has its products array): records with a top-level purchase *)
(* date of two different days, a record of the current shape, a record     *)
(* that lacks only servicesProvided and a record with a stray serial       *)
(* number.                                                                 *)
(***************************************************************************)
ListedPool ==
    { Customer @@ [purchaseDate |-> <<2023, 6, 1>>]
          @@ [products |-> <<Product("Lamp", "SN2", <<2024, 1, 31>>, 1, "weeks")>>]
          @@ [servicesProvided |-> Services(TRUE, FALSE)],
      Customer @@ [productName |-> "Fan", purchaseDate |-> <<2024, 1, 31>>]
          @@ [products |-> <<[productName |-> "Pump", serialNumber |-> "SN4"]>>]
          @@ Installation(<<2024, 2, 1>>, 1, "months"),
      Customer @@ [products |-> <<Product("Lamp", "SN2", <<2024, 1, 31>>, 1, "weeks")>>]
          @@ [servicesProvided |-> Services(TRUE, FALSE)] @@ Installation(<<>>, 0, "months"),
      Customer @@ [products |-> <<>>] @@ Installation(<<2024, 2, 1>>, 1, "months"),
      Customer @@ [serialNumber |-> "SN9"]
          @@ [products |-> <<Product("Lamp", "SN2", <<2024, 1, 31>>, 1, "weeks")>>] }

InitListed ==
    /\ warranties \in {<<>>} \cup {WithIds(<<a>>) : a \in ListedPool}
                     \cup {WithIds(<<a, b>>) : a, b \in ListedPool}
    /\ loaded = <<>>
    /\ mounted = FALSE
    /\ InitStatus0
    /\ InitShell0

SpecListed == InitListed /\ [][Next]_vars

(***************************************************************************)
(* Claims on what the migration pass leaves alone                          *)
(***************************************************************************)
\* the record new is the record old with the synthesized servicesProvided
\* added and nothing else changed
GainedOnlyServices(old, new) ==
    /\ DOMAIN new = DOMAIN old \cup {"servicesProvided"}
    /\ \A k \in DOMAIN old : new[k] = old[k]
    /\ new.servicesProvided \in [supply : BOOLEAN, install : BOOLEAN]

\* C24: a load keeps the number of records, their order and their ids; a
\* record with neither a top-level productName nor a top-level purchaseDate
\* and without servicesProvided only gains servicesProvided; a record that
\* needs no migration is unchanged whatever the other records need; and a
\* collection in which no record needs migration is stored as it was.
C24_OrderAndFramePreserved ==
    [][Mount =>
        /\ Len(warranties') = Len(warranties)
        /\ \A i \in DOMAIN warranties :
              /\ Opt(warranties'[i], "id") = Opt(warranties[i], "id")
              /\ (~hasLegacyFields(warranties[i]) /\ ~Has(warranties[i], "servicesProvided"))
                     => GainedOnlyServices(warranties[i], warranties'[i])
              /\ ~recordNeedsMigration(warranties[i]) => warranties'[i] = warranties[i]
        /\ ~needsMigration(warranties) => warranties' = warranties]_vars

(***************************************************************************)
(* Claims on the reminder of a record that expires soon                    *)
(***************************************************************************)
\* C25: when getWarrantyStatusInfo classifies the record as Expiring Soon,
\* the reminder composed for it on the same day has at least one product
\* item or the installation section and is not the generic fallback text.
C25_ExpiringSoonItemized ==
    (result # <<>> /\ getWarrantyStatusInfo(warranty, now).status = "Expiring Soon") =>
        /\ ~IsFallback(result[1])
        /\ Len(LinesOf(result[1], "Item"))
             + Len(LinesOf(result[1], "Service Type: Installation")) >= 1

\* the reminder of a record that expires soon and whose installation alone
\* is still covered: no item, the installation section
C25_Witness ==
    /\ result # <<>>
    /\ getWarrantyStatusInfo(warranty, now).status = "Expiring Soon"
    /\ LinesOf(result[1], "Item") = <<>>
    /\ Len(LinesOf(result[1], "Service Type: Installation")) = 1
    /\ Has(warranty, "products") /\ warranty.products # <<>>

(***************************************************************************)
(* Claims on the status of one record as the days pass                     *)
(***************************************************************************)
\* the place of a status in the order Active, Expiring Soon, Expired
StatusRank(status) ==
    CASE status = "Active" -> 1
      [] status = "Expiring Soon" -> 2
      [] status = "Expired" -> 3

\* C26: for a record that does not change, the status never moves backwards
\* from one day to the next in the order Active, Expiring Soon, Expired: once
\* Expired it stays Expired, and a record from which no expiry date is
\* collected is Active on every day.
C26_StatusNeverGoesBack ==
    [][DayPasses =>
        LET before == getWarrantyStatusInfo(warranty, now).status
            after == getWarrantyStatusInfo(warranty', now').status
        IN  /\ StatusRank(before) <= StatusRank(after)
            /\ before = "Expired" => after = "Expired"
            /\ allExpiryDates(warranty) = <<>> => (before = "Active" /\ after = "Active")]_vars

\* the record was rendered Expiring Soon on the first day and is rendered
\* Expired on a later day
C26_Witness ==
    /\ info # NoInfo /\ info.status = "Expired"
    /\ DayOf(now) > FirstDay
    /\ getWarrantyStatusInfo(warranty, 24 * FirstDay).status = "Expiring Soon"

(***************************************************************************)
(* The record workflow with the search box of the header and the notify    *)
(* menu of the cards.                                                      *)
(***************************************************************************)
SearchTerms == {"", "lamp"}

\* mutant of setSearchTerm: the filter is applied to the stored collection
setSearchTerm_filtersStore(term) ==
    /\ mounted /\ ~overlayOpen
    /\ term # searchTerm
    /\ searchTerm' = term
    /\ warranties' = filteredWarranties(warranties, term)
    /\ noCalls
    /\ UNCHANGED <<loaded, mounted>>
    /\ UNCHANGED <<statusVars, uiVars, fnVars>>

\* Header: the search box is typed into (onSearchChange is setSearchTerm)
setSearchTerm(term) ==
    /\ mounted /\ ~overlayOpen
    /\ term # searchTerm
    /\ searchTerm' = term
    /\ warranties' = (IF term = "" THEN listSort(warranties) ELSE warranties)
    /\ noCalls
    /\ UNCHANGED <<loaded, mounted>>
    /\ UNCHANGED <<statusVars, uiVars, fnVars>>

\* WarrantyCard lines 40-72 on the i-th record, if it is listed and its menu
\* is shown (line 92); setShowNotifyOptions is the card's own state
handleNotify(i, channel) ==
    /\ mounted /\ ~overlayOpen
    /\ warranties[i] \in Range(filteredWarranties(warranties, searchTerm))
    /\ getWarrantyStatusInfo(warranties[i], now).status = "Expiring Soon"
    /\ effects' = handleNotifyCalls(warranties[i], channel, now)
    /\ UNCHANGED timers
    /\ UNCHANGED <<statusVars, appVars, uiVars, fnVars, searchTerm>>

NextStore ==
    \/ NextUI
    \/ \E term \in SearchTerms : setSearchTerm(term)
    \/ \E i \in DOMAIN warranties, channel \in {"email", "whatsapp"} :
          handleNotify(i, channel)

SpecStore == InitUI /\ [][NextStore]_vars

(***************************************************************************)
(* Claims on what changes the stored collection                            *)
(***************************************************************************)
\* C27: the stored collection changes only in a page load (the migration),
\* in the confirmation of a preview and in a confirmed delete; every other
\* step (opening or closing the form, submitting it, going back from the
\* preview to the form, closing the preview, typing a search term, sending a
\* reminder) leaves it as it is, and closing the preview leaves the entered
\* data nowhere.
C27_StoreChangesOnlyByThree ==
    [][/\ warranties' # warranties =>
             \/ Mount
             \/ handlePreviewConfirm
             \/ \E i \in DOMAIN warranties : deleteWarranty(i, TRUE)
       /\ handlePreviewClose =>
             /\ warranties' = warranties
             /\ previewData' = <<>> /\ formData' = <<>> /\ formSeedData' = <<>>]_vars

\* with a search term typed, a reminder has been sent by e-mail for a
\* record of the loaded collection, which is stored as the load left it
C27_Witness ==
    /\ mounted /\ searchTerm = "lamp"
    /\ \E i \in DOMAIN effects : effects[i].call = "location.href"
    /\ warranties # <<>>
    /\ warranties = migrationEffect(LastLoaded)

(***************************************************************************)
(* Confirmation: records are created and edited, previewed with the share  *)
(* boxes ticked in every way and confirmed, and the scheduled callbacks    *)
(* run.                                                                    *)
(***************************************************************************)
NextConfirm ==
    \/ NextShare
    \/ handleAddNew
    \/ \E input \in NameInputs : handleChange(input[1], input[2])

\* the stored records are of the current shape
InitConfirm ==
    /\ warranties \in
          { WithIds(s) :
              s \in SeqsUpTo({w \in CompanionPool : ~recordNeedsMigration(w)}, MaxInitial) }
    /\ InitWorkflow0

SpecConfirm == InitConfirm /\ [][NextConfirm]_vars

(***************************************************************************)
(* Claims on the confirmation of a preview                                 *)
(***************************************************************************)
StoredIds == {Opt(warranties[i], "id") : i \in DOMAIN warranties}

\* an id no record was ever given: the stored ids and the instants begin at 1
GhostId == toISOString(0)

\* C28: the confirmation of a preview changes the store once, before
\* anything is composed or sent: previewed data without an id, or with an
\* empty one, are appended under an id no stored record has, previewed data
\* with an id replace the record of that id where it stands; the preview is
\* cleared, so that no record is created without a preview being consumed
\* and none while there is no preview; an update under an id that no stored
\* record has leaves the store as it is.
C28_OneStoreChangePerConfirm ==
    /\ [][handlePreviewConfirm =>
            LET data == previewData[1]
            IN  /\ SelectSeq(CallNames(effects'), LAMBDA c : c = "setWarranties")
                     = <<"setWarranties">>
                /\ CallNames(effects')[1] = "setWarranties"
                /\ previewData' = <<>>
                /\ IF Opt(data, "id") \in {<<>>, <<<<>>>>}
                   THEN /\ Len(warranties') = Len(warranties) + 1
                        /\ SubSeq(warranties', 1, Len(warranties)) = warranties
                        /\ Opt(warranties'[Len(warranties')], "id") \notin StoredIds
                        /\ Opt(warranties'[Len(warranties')], "id") \notin {<<>>, <<<<>>>>}
                        /\ Without(warranties'[Len(warranties')], {"id"})
                             = Without(data, {"id"})
                   ELSE /\ Len(warranties') = Len(warranties)
                        /\ Opt(data, "id") \in StoredIds
                        /\ \A i \in DOMAIN warranties :
                              warranties'[i] = IF Opt(warranties[i], "id") = Opt(data, "id")
                                               THEN data ELSE warranties[i]
                /\ updateWarranty(warranties, [id |-> GhostId] @@ data) = warranties
          ]_vars
    /\ [][Len(warranties') > Len(warranties) =>
            /\ previewData # <<>> /\ previewData' = <<>>
            /\ Len(warranties') = Len(warranties) + 1]_vars
    /\ [][previewData = <<>> => ~handlePreviewConfirm]_vars

\* a record was created with both share boxes ticked, one more than the
\* load left, and the preview is gone
C28_Witness ==
    /\ mounted /\ previewData = <<>>
    /\ Len(warranties) = Len(LastLoaded) + 1
    /\ CallNames(effects) =
          <<"setWarranties", "generateShareMessage", "location.href", "setTimeout">>

(***************************************************************************)
(* Claims on the form of the WhatsApp number                               *)
(***************************************************************************)
\* C29: the number returned has digits only; it is empty only for the empty
\* text and otherwise begins with 60; and the function returns a number it
\* has returned unchanged.
C29_PhoneWellFormedIdempotent ==
    result # <<>> =>
        /\ \A i \in DOMAIN result[1] :
              result[1][i] \in {"0", "1", "2", "3", "4", "5", "6", "7", "8", "9"}
        /\ result[1] = <<>> <=> argument = <<>>
        /\ result[1] # <<>> =>
              (Len(result[1]) >= 2 /\ SubSeq(result[1], 1, 2) = <<"6", "0">>)
        /\ formatPhoneNumberForWhatsApp(result[1]) = result[1]

\* a text without any digit gives the bare country code
C29_Witness ==
    /\ argument = <<"-">>
    /\ result = << <<"6", "0">> >>

(***************************************************************************)
(* Claims on the installation data of a form that was opened empty         *)
(***************************************************************************)
\* without the install flag the record has no installation date and the
\* installation period 0
NoInstallDataWithoutFlag(r) ==
    ~r.servicesProvided.install =>
        (Opt(r, "installDate") = <<<<>>>> /\ Opt(r, "installationWarrantyPeriod") = <<0>>)

\* C30: in a form opened with no seed, whatever fields were changed, products
\* added or removed and boxes clicked since, the install flag being off
\* implies an empty installDate and an installationWarrantyPeriod of 0, and
\* so it is in the record such a form submits.
C30_NoInstallDataWithoutFlag ==
    /\ (isFormOpen /\ formSeedData = <<>>) => NoInstallDataWithoutFlag(formData[1])
    /\ (previewData # <<>> /\ ~Has(previewData[1], "id")) =>
           NoInstallDataWithoutFlag(previewData[1])

\* a new record with a product was submitted without the install flag
C30_Witness ==
    /\ previewData # <<>> /\ ~Has(previewData[1], "id")
    /\ ~previewData[1].servicesProvided.install
    /\ previewData[1].servicesProvided.supply
    /\ Len(previewData[1].products) = 1
    /\ previewData[1].installDate = <<>>

====
